---- MODULE Spec2Model ----
(***************************************************************************)
(* SIGPLAY: the playback engine (services/audio_player.py) and the         *)
(* handlers of main.py that drive it; the spectrum analyzer                 *)
(* (services/spectrum_analyzer.py) with its capture callback; the tools of *)
(* the mix agent (floppy_mix_agent.py).                                    *)
(*                                                                         *)
(* Time is counted in whole seconds (time.time() is the variable now).     *)
(* Volume is counted in hundredths (0.7 is 70, 0.05 is 5).                 *)
(***************************************************************************)
EXTENDS Integers, Sequences, FiniteSets, TLC

\* ------------------------------------------------------------------ bounds
MaxClock == 4          \* the wall clock runs from 0 to MaxClock
MaxPlaylistLen == 2    \* longest playlist handed to set_playlist
BufLen == 2            \* buffer_size: the samples of one analysis window
MaxCallbacks == 2      \* blocks the capture stream delivers
MaxReads == 3          \* calls of get_frequency_bands
MaxWork == 2           \* size of a mix context: segments + 2 * transformations
MaxArgs == 2           \* keyword arguments of a tool call
MaxToolCalls == 2      \* tool calls of one run of the agent
MaxNameLen == 2        \* characters of a filename the user types
MaxMixes == 2          \* mixes one view starts
MaxLoads == 2          \* lyrics loads started in a row
MaxFrames == 3         \* frames of a buffer

\* ------------------------------------------------------- program constants
RESTART_THRESHOLD == 3 \* previous_track: "if current_position > 3.0"
DEFAULT_VOLUME == 70   \* self._volume = 0.7
VOLUME_STEP == 5       \* amount: float = 0.05
VOLUME_MAX == 100      \* min(1.0, level)
VOLUME_MIN == 0        \* max(0.0, level)
SMOOTHING_FACTOR == 30 \* smoothing_factor: float = 0.3
FULL_SCALE == 100      \* the amplitude 1.0 that the largest band is normalised to
MIN_BPM == 60          \* MIN_BPM = 60.0
MAX_BPM == 200         \* MAX_BPM = 200.0
MAX_STRETCH_RATIO == 115 \* MAX_STRETCH_RATIO = 1.15
MIN_STRETCH_RATIO == 85  \* MIN_STRETCH_RATIO = 0.85
SKIP_RATIO_LOW == 95   \* if 0.95 <= stretch_ratio
SKIP_RATIO_HIGH == 105  \* stretch_ratio <= 1.05
CHUNK_SIZE == 4096     \* chunk_size = 4096
MIX_NAME_LEN == 30     \* f"floppy_mix_{timestamp}.wav", timestamp "%Y%m%d_%H%M%S"
TEMP_DIR_LEN == 32     \* "/.local/share/sigplay/temp_mixes"

\* PlaybackState
STOPPED == "STOPPED"
PLAYING == "PLAYING"
PAUSED == "PAUSED"
PlaybackState == {STOPPED, PLAYING, PAUSED}

None == "None"
PREVIEW == "Floppy Mix Preview"
\* Tracks are dataclass values: two Track objects with equal fields are equal,
\* so a track is identified here by its value.
LibraryTracks == {"A", "B"}
Tracks == LibraryTracks \cup {PREVIEW}

Max(a, b) == IF a >= b THEN a ELSE b
Min(a, b) == IF a <= b THEN a ELSE b

SeqsUpTo(S, n) == UNION {[1..k -> S] : k \in 0..n}
\* The playlists handed to set_playlist. The code treats the library tracks
\* alike, so a playlist is taken to start with "A".
Playlists == {s \in SeqsUpTo(LibraryTracks, MaxPlaylistLen) : s = <<>> \/ s[1] = "A"}

\* list.index(x): the 0-based index of the first element equal to x
ListIndex(list, x) == (CHOOSE i \in 1..Len(list) :
                          /\ list[i] = x
                          /\ \A j \in 1..(i - 1) : list[j] # x) - 1

\* list[i] with Python's 0-based and negative indexing
ListAt(list, i) == IF i < 0 THEN list[Len(list) + i + 1] ELSE list[i + 1]

InList(list, x) == \E i \in 1..Len(list) : list[i] = x

VARIABLES
    now,          \* time.time()
    player,       \* the AudioPlayer singleton's fields
    end_event,    \* the end-of-stream flag track_ended_naturally() reads
    op,           \* the last operation that ran
    arg,          \* its argument (the track of play, the level or amount of a volume call)
    raised,       \* whether that operation raised an exception to its caller
    pre,          \* what the getters returned just before that operation
    advanced,     \* whether that operation was a poll that called next_track()
    played,       \* seconds spent Playing since the last successful play() (0 when Stopped)
    waited,       \* whether the clock advanced while Paused since the last successful play()
    last_call,    \* the last of stop() / play() that ran: "stop", "play_ok", "play_failed"
    skips,        \* how many calls of next_track() in a row have returned
    analyzer,     \* the SpectrumAnalyzer's fields
    callback,     \* the capture thread inside _audio_callback
    reader,       \* the UI thread inside get_frequency_bands, and what its last call saw
    mix,          \* _mix_context
    disk,         \* the file at output_path and its directory
    tool,         \* the last tool the agent called, and what it did
    request,      \* handle_mix_request: where it is, how the last one ended
    call,         \* a tool call with its keyword arguments, and what it handed on
    agent,        \* the agent subprocess: its processes, its pipes, what its hook saw
    client,       \* DJAgentClient.create_mix: where it is, what it raised or returned
    view,         \* FloppyMixView's fields
    panel,        \* its TrackSelectionPanel, and the order the user picked the tracks in
    fs,           \* the temporary mix files and the files of the music directory
    mixes,        \* the calls of create_mix that start_mixing is waiting for
    ui,           \* the last handler of the view that ran, and what it found and did
    lyrics        \* LyricsView's fields and the tasks it started

playerVars == <<now, player, end_event, op, arg, raised, pre, advanced, played, waited,
                last_call, skips>>
analyzerVars == <<analyzer, callback, reader>>
mixVars == <<mix, disk, tool, request>>
callVars == <<call>>
clientVars == <<agent, client>>

viewVars == <<view, panel, fs, mixes, ui>>
lyricsVars == <<lyrics>>

vars == <<playerVars, analyzerVars, mixVars, callVars, clientVars, viewVars, lyricsVars>>

\* ------------------------------------------------------------ AudioPlayer

\* __init__
NewPlayer == [current_track  |-> None,
              playlist       |-> <<>>,
              current_index  |-> -1,
              volume         |-> DEFAULT_VOLUME,
              state          |-> STOPPED,
              start_time     |-> 0,
              pause_position |-> 0,
              music          |-> "idle"]

\* what a call hands back: the player after it, whether it raised, and which of
\* stop() / play() it ran last: "stop", "play_ok", "play_failed" ("" for neither)
Ret(p, exc, did) == [p |-> p, exc |-> exc, did |-> did]

get_position(p, t) ==
    IF p.state = STOPPED THEN 0
    ELSE IF p.state = PAUSED THEN p.pause_position
    ELSE IF p.state = PLAYING THEN t - p.start_time
    ELSE 0

\* play() that forgets to enter Stopped when the load fails
play_KeepsStateOnError(p, track, ok, t) ==
    IF ok
    THEN Ret([p EXCEPT !.music = "busy",
                       !.current_track = track,
                       !.state = PLAYING,
                       !.start_time = t,
                       !.pause_position = 0,
                       !.current_index =
                           IF p.playlist # <<>> /\ InList(p.playlist, track)
                           THEN ListIndex(p.playlist, track)
                           ELSE @], FALSE, "play_ok")
    ELSE Ret([p EXCEPT !.current_track = None], TRUE, "play_failed")

\* play(track) at time t; ok says whether pygame loads and starts the file.
\* music is the output device ("idle", "busy", "paused"); a load that fails
\* leaves it as it was.
play(p, track, ok, t) ==
    IF ok
    THEN Ret([p EXCEPT !.music = "busy",
                       !.current_track = track,
                       !.state = PLAYING,
                       !.start_time = t,
                       !.pause_position = 0,
                       !.current_index =
                           IF p.playlist # <<>> /\ InList(p.playlist, track)
                           THEN ListIndex(p.playlist, track)
                           ELSE @], FALSE, "play_ok")
    ELSE Ret([p EXCEPT !.state = STOPPED, !.current_track = None], TRUE, "play_failed")

\* pause() without its state test
pause_Unguarded(p, t) ==
    [p EXCEPT !.music = IF @ = "busy" THEN "paused" ELSE @,
              !.state = PAUSED,
              !.pause_position = t - p.start_time]

pause(p, t) ==
    IF p.state = PLAYING
    THEN [p EXCEPT !.music = IF @ = "busy" THEN "paused" ELSE @,
                   !.state = PAUSED,
                   !.pause_position = t - p.start_time]
    ELSE p

\* resume() that does not re-anchor the wall-clock reference
resume_NoReanchor(p, t) ==
    IF p.state = PAUSED
    THEN [p EXCEPT !.music = IF @ = "paused" THEN "busy" ELSE @,
                   !.state = PLAYING]
    ELSE p

\* resume() without its state test
resume_Unguarded(p, t) ==
    [p EXCEPT !.music = IF @ = "paused" THEN "busy" ELSE @,
              !.state = PLAYING,
              !.start_time = t - p.pause_position]

resume(p, t) ==
    IF p.state = PAUSED
    THEN [p EXCEPT !.music = IF @ = "paused" THEN "busy" ELSE @,
                   !.state = PLAYING,
                   !.start_time = t - p.pause_position]
    ELSE p

\* stop() that stops the device and resets the position but keeps the state
stop_KeepsState(p) == [p EXCEPT !.music = "idle",
                                !.start_time = 0,
                                !.pause_position = 0]

stop(p) == [p EXCEPT !.music = "idle",
                     !.state = STOPPED,
                     !.start_time = 0,
                     !.pause_position = 0]

next_track(p, ok, t) ==
    IF p.playlist = <<>> THEN Ret(p, FALSE, "")
    ELSE IF p.current_index < Len(p.playlist) - 1
    THEN LET q == [p EXCEPT !.current_index = @ + 1]
         IN  play(q, ListAt(q.playlist, q.current_index), ok, t)
    ELSE Ret(stop(p), FALSE, "stop")

previous_track(p, ok, t) ==
    IF p.playlist = <<>> THEN Ret(p, FALSE, "")
    ELSE IF get_position(p, t) > RESTART_THRESHOLD
    THEN play(p, ListAt(p.playlist, p.current_index), ok, t)
    ELSE IF p.current_index > 0
    THEN LET q == [p EXCEPT !.current_index = @ - 1]
         IN  play(q, ListAt(q.playlist, q.current_index), ok, t)
    ELSE Ret(p, FALSE, "")

\* set_volume() that clamps from above only
set_volume_NoFloor(p, level) == [p EXCEPT !.volume = Min(VOLUME_MAX, level)]

set_volume(p, level) == [p EXCEPT !.volume = Max(VOLUME_MIN, Min(VOLUME_MAX, level))]

increase_volume(p, amount) == set_volume(p, p.volume + amount)

decrease_volume(p, amount) == set_volume(p, p.volume - amount)

\* set_playlist that takes start_index as it comes
set_playlist_NoClamp(p, tracks, start_index) ==
    [p EXCEPT !.playlist = tracks,
              !.current_index = IF tracks # <<>> THEN start_index ELSE -1]

set_playlist(p, tracks, start_index) ==
    [p EXCEPT !.playlist = tracks,
              !.current_index = IF tracks # <<>>
                                THEN Max(0, Min(start_index, Len(tracks) - 1))
                                ELSE -1]

\* track_ended_naturally(): the value read, and the flag after the read
track_ended_naturally(flag) == [value |-> flag, flag |-> FALSE]

\* _check_track_end that advances at every poll, whatever the flag says
_check_track_end_EveryPoll(p, flag, ok, t) ==
    LET ended == track_ended_naturally(flag)
    IN  IF p.current_track # None /\ p.current_track = PREVIEW
        THEN [r |-> Ret(p, FALSE, ""), flag |-> ended.flag, advanced |-> FALSE]
        ELSE LET r == next_track(p, ok, t)
             IN  [r |-> Ret(r.p, FALSE, r.did), flag |-> ended.flag, advanced |-> TRUE]

\* _check_track_end without its test for the preview track
_check_track_end_NoPreviewTest(p, flag, ok, t) ==
    LET ended == track_ended_naturally(flag)
    IN  IF ended.value
        THEN LET r == next_track(p, ok, t)
             IN  [r |-> Ret(r.p, FALSE, r.did), flag |-> ended.flag, advanced |-> TRUE]
        ELSE [r |-> Ret(p, FALSE, ""), flag |-> ended.flag, advanced |-> FALSE]

\* SigplayApp._check_track_end, the TRACK_END_CHECK_INTERVAL timer's callback;
\* an exception of next_track() is caught and notified, never re-raised
_check_track_end(p, flag, ok, t) ==
    LET ended == track_ended_naturally(flag)
        quiet == [r |-> Ret(p, FALSE, ""), flag |-> ended.flag, advanced |-> FALSE]
    IN  IF ended.value
        THEN IF p.current_track # None /\ p.current_track = PREVIEW
             THEN quiet
             ELSE LET r == next_track(p, ok, t)
                  IN  [r |-> Ret(r.p, FALSE, r.did),
                       flag |-> ended.flag, advanced |-> TRUE]
        ELSE quiet

\* ------------------------------------------------------- SpectrumAnalyzer
\* (services/spectrum_analyzer.py)
\*
\* A sample is written as the number of the callback invocation that
\* delivered it (0 for the zeros of __init__) and the tone it belongs to.
\* An amplitude in 0..1 is counted in hundredths.

Tones == {"silence", "bass", "high"}

Sample(k, tone) == [inv |-> k, tone |-> tone]

\* the frames x channels block PortAudio hands to the callback at invocation k;
\* a second channel, when there is one, is silent
Indata(k, tone, channels) ==
    [f \in 1..BufLen |-> [c \in 1..channels |->
        Sample(k, IF c = 1 THEN tone ELSE "silence")]]

\* ndarray.flatten(): the rows one after the other
RECURSIVE Flatten(_)
Flatten(rows) ==
    IF rows = <<>> THEN <<>> ELSE Head(rows) \o Flatten(Tail(rows))

\* threading.Lock: whether an acquire() may proceed
Lock_acquire_Unguarded(lock) == TRUE

Lock_acquire(lock) == lock = "free"

\* the body of "with self._buffer_lock:" in _audio_callback: the array the
\* name _audio_buffer is bound to afterwards
_audio_callback(indata) ==
    IF Len(indata[1]) > 1
    THEN Flatten([f \in 1..Len(indata) |-> <<indata[f][1]>>])
    ELSE Flatten(indata)

ZeroBands == [bass |-> 0, mid |-> 0, high |-> 0]

NoBands == <<>>

NewAnalyzer == [audio_buffer   |-> [i \in 1..BufLen |-> Sample(0, "silence")],
                buffer_lock    |-> "free",
                stream         |-> None,
                is_active      |-> FALSE,
                previous_bands |-> NoBands]

\* SpectrumAnalyzer.start; outcome says how far the capture stream got
SpectrumAnalyzer_start(a, outcome) ==
    IF a.is_active
    THEN [a |-> a, exc |-> FALSE]
    ELSE IF outcome = "ok"
         THEN [a |-> [a EXCEPT !.stream = "running", !.is_active = TRUE], exc |-> FALSE]
         ELSE IF outcome = "start_failed"
              THEN [a |-> [a EXCEPT !.stream = "created"], exc |-> TRUE]
              ELSE [a |-> a, exc |-> TRUE]

\* SpectrumAnalyzer.stop
SpectrumAnalyzer_stop(a) ==
    IF ~a.is_active
    THEN a
    ELSE [a EXCEPT !.stream = None, !.is_active = FALSE]

\* SpectrumAnalyzer.is_active
is_active(a) == a.is_active

\* _compute_fft and _extract_frequency_bands: the magnitude found in each
\* band, here the number of samples of the tone that lies in it
_extract_frequency_bands(audio_data) ==
    LET count(tone) == Cardinality({i \in 1..Len(audio_data) : audio_data[i].tone = tone})
    IN  [bass |-> count("bass"), mid |-> count("mid"), high |-> count("high")]

\* _normalize_amplitudes
_normalize_amplitudes(m) ==
    LET max_amplitude == Max(m.bass, Max(m.mid, m.high))
    IN  IF max_amplitude > 0
        THEN [bass |-> (m.bass * FULL_SCALE) \div max_amplitude,
              mid  |-> (m.mid * FULL_SCALE) \div max_amplitude,
              high |-> (m.high * FULL_SCALE) \div max_amplitude]
        ELSE m

\* _apply_smoothing: the bands returned and the new _previous_bands
_apply_smoothing(previous, current_bands) ==
    IF previous = NoBands
    THEN [bands |-> current_bands, previous |-> <<current_bands>>]
    ELSE LET alpha == SMOOTHING_FACTOR
             blend(p, c) == ((FULL_SCALE - alpha) * p + alpha * c) \div FULL_SCALE
             smoothed == [bass |-> blend(previous[1].bass, current_bands.bass),
                          mid  |-> blend(previous[1].mid, current_bands.mid),
                          high |-> blend(previous[1].high, current_bands.high)]
         IN  [bands |-> smoothed, previous |-> <<smoothed>>]

\* get_frequency_bands after the copy: from the copied samples to the result
get_frequency_bands(a, audio_data) ==
    LET current_bands == _normalize_amplitudes(_extract_frequency_bands(audio_data))
        s == _apply_smoothing(a.previous_bands, current_bands)
    IN  [a |-> [a EXCEPT !.previous_bands = s.previous],
         current |-> current_bands,
         bands |-> s.bands]

\* ------------------------------------------------------------ mix agent
\* (floppy_mix_agent.py)
\*
\* An audio array is written as its shape (channels, frames) and the number
\* of transformations its samples went through.  Seconds are counted in
\* tenths, so int(seconds * sample_rate) is (tenths * sample_rate) \div 10;
\* a tempo is a whole number of beats per minute and a stretch ratio is
\* compared in hundredths.

\* the audio files on disk that load_audio_track can decode
AudioFiles ==
    [p \in {"a.wav", "c.wav", "s.wav"} |->
        IF p = "a.wav" THEN [channels |-> 1, frames |-> 441000, sample_rate |-> 44100]
        ELSE IF p = "c.wav" THEN [channels |-> 1, frames |-> 48000, sample_rate |-> 48000]
        ELSE [channels |-> 2, frames |-> 441000, sample_rate |-> 44100]]

TrackPaths == DOMAIN AudioFiles \cup {"missing.wav"}

\* the identifier the agent loads tracks under, and one it never loaded
LoadedIds == {"track_1"}
TrackIds == LoadedIds \cup {"track_9"}

EmptyDict == [k \in {} |-> 0]

\* d[k] = v
Put(d, k, v) == [x \in DOMAIN d \cup {k} |-> IF x = k THEN v ELSE d[x]]

\* int(seconds * sample_rate) for seconds >= 0
ToSamples(tenths, sample_rate) == (tenths * sample_rate) \div 10

\* the number of frames of array[:, start:end], the two indices counted from
\* the start of the array (an index before the start is the start)
SliceLen(frames, start, end) ==
    Max(0, Min(Max(end, 0), frames) - Min(Max(start, 0), frames))

\* MixContext.__init__
NewMixContext == [audio_cache  |-> EmptyDict,
                  mix_segments |-> <<>>,
                  bpm_cache    |-> EmptyDict]

\* MixContext.clear
clear(ctx) == NewMixContext

\* no request yet.  outcome says how the last request ended, emptied whether
\* its end found something in the context
NewRequest == [pc |-> "idle", outcome |-> "none", emptied |-> FALSE]

\* handle_mix_request up to the call of the agent: the context is cleared,
\* then the request is validated and the agent is made; outcome is "ok",
\* "invalid" (no tracks, no instructions, a missing file) or "no_agent"
handle_mix_request_enter(ctx, outcome) ==
    [ctx |-> clear(ctx), exc |-> outcome # "ok"]

\* a handle_mix_request without the finally clause
handle_mix_request_leave_NoFinally(ctx, agent_raised, file_exists) ==
    [ctx |-> ctx, exc |-> agent_raised \/ ~file_exists]

\* handle_mix_request after the agent: it returns when the agent returned
\* and the output file exists and raises otherwise; the finally clause
\* clears the context on both ways out
handle_mix_request_leave(ctx, agent_raised, file_exists) ==
    [ctx |-> clear(ctx), exc |-> agent_raised \/ ~file_exists]

\* what a tool returns: the context afterwards and the kind of message
ToolRet(ctx, result) == [ctx |-> ctx, result |-> result]

\* the messages that start with the cross mark; the last three are the
\* message of "except Exception", told apart by what raised: a library call,
\* numpy on arrays of different shapes, the file system
Errors == {"load_error", "not_loaded", "bpm_out_of_range", "stretch_out_of_range",
           "empty_mix", "error_library", "error_shape", "error_io"}

\* load_audio_track
load_audio_track(ctx, track_path, track_id) ==
    IF track_path \in DOMAIN AudioFiles
    THEN LET f == AudioFiles[track_path]
             entry == [audio       |-> [channels |-> f.channels, frames |-> f.frames, edits |-> 0],
                       sample_rate |-> f.sample_rate,
                       path        |-> track_path]
         IN  ToolRet([ctx EXCEPT !.audio_cache = Put(@, track_id, entry)], "ok")
    ELSE ToolRet(ctx, "load_error")

\* track_data['audio'] = the array a library call made of it
Processed(ctx, track_id, frames) ==
    [ctx EXCEPT !.audio_cache[track_id].audio.frames = frames,
                !.audio_cache[track_id].audio.edits = @ + 1]

\* detect_bpm that stores a tempo for a track it does not hold
detect_bpm_Unguarded(ctx, track_id, tempo) ==
    ToolRet([ctx EXCEPT !.bpm_cache = Put(@, track_id, tempo)], "ok")

\* detect_bpm; tempo is what librosa.beat.beat_track finds
detect_bpm(ctx, track_id, tempo) ==
    IF track_id \notin DOMAIN ctx.audio_cache
    THEN ToolRet(ctx, "not_loaded")
    ELSE ToolRet([ctx EXCEPT !.bpm_cache = Put(@, track_id, tempo)], "ok")

\* the stretch guard with the limits themselves refused
StretchAllowed_Strict(source_bpm, target_bpm) ==
    /\ 100 * source_bpm < MAX_STRETCH_RATIO * target_bpm
    /\ 100 * source_bpm > MIN_STRETCH_RATIO * target_bpm

\* not (stretch_ratio > MAX_STRETCH_RATIO or stretch_ratio < MIN_STRETCH_RATIO)
StretchAllowed(source_bpm, target_bpm) ==
    /\ ~(100 * source_bpm > MAX_STRETCH_RATIO * target_bpm)
    /\ ~(100 * source_bpm < MIN_STRETCH_RATIO * target_bpm)

\* the skip band without its two limits
CloseToTarget_Open(source_bpm, target_bpm) ==
    /\ SKIP_RATIO_LOW * target_bpm < 100 * source_bpm
    /\ 100 * source_bpm < SKIP_RATIO_HIGH * target_bpm

\* 0.95 <= stretch_ratio <= 1.05
CloseToTarget(source_bpm, target_bpm) ==
    /\ SKIP_RATIO_LOW * target_bpm <= 100 * source_bpm
    /\ 100 * source_bpm <= SKIP_RATIO_HIGH * target_bpm

\* a stretch by rate = stretch_ratio: round(frames / stretch_ratio)
Stretched_Inverse(frames, source_bpm, target_bpm) ==
    (2 * frames * target_bpm + source_bpm) \div (2 * source_bpm)

\* the frames librosa.effects.time_stretch(rate = 1 / stretch_ratio) returns:
\* round(frames * stretch_ratio)
Stretched(frames, source_bpm, target_bpm) ==
    (2 * frames * source_bpm + target_bpm) \div (2 * target_bpm)

\* time_stretch_to_bpm that refuses whatever it is asked
time_stretch_to_bpm_Refuses(ctx, track_id, target_bpm, source_bpm, tempo, ok) ==
    [ctx |-> ctx,
     result |-> IF track_id \in DOMAIN ctx.audio_cache
                THEN "stretch_out_of_range" ELSE "not_loaded",
     source |-> source_bpm]

\* time_stretch_to_bpm; source_bpm = 0 stands for None, tempo is what
\* beat_track finds when it is asked, ok whether time_stretch returns
time_stretch_to_bpm(ctx, track_id, target_bpm, source_bpm, tempo, ok) ==
    IF track_id \notin DOMAIN ctx.audio_cache
    THEN [ctx |-> ctx, result |-> "not_loaded", source |-> 0]
    ELSE IF ~(MIN_BPM <= target_bpm /\ target_bpm <= MAX_BPM)
    THEN [ctx |-> ctx, result |-> "bpm_out_of_range", source |-> source_bpm]
    ELSE LET cached == track_id \in DOMAIN ctx.bpm_cache
             source == IF source_bpm # 0 THEN source_bpm
                       ELSE IF cached THEN ctx.bpm_cache[track_id] ELSE tempo
             known == IF source_bpm = 0 /\ ~cached
                      THEN [ctx EXCEPT !.bpm_cache = Put(@, track_id, tempo)]
                      ELSE ctx
         IN  IF CloseToTarget(source, target_bpm)
             THEN [ctx |-> known, result |-> "already_close", source |-> source]
             ELSE IF ~StretchAllowed(source, target_bpm)
             THEN [ctx |-> known, result |-> "stretch_out_of_range", source |-> source]
             ELSE IF ~ok
             THEN [ctx |-> known, result |-> "error_library", source |-> source]
             ELSE LET frames == known.audio_cache[track_id].audio.frames
                      done == Processed(known, track_id, Stretched(frames, source, target_bpm))
                  IN  [ctx |-> [done EXCEPT !.bpm_cache = Put(@, track_id, target_bpm)],
                       result |-> "ok", source |-> source]

\* the body shared by the effect tools once their parameters are read: any
\* says whether the parameters switch an effect on, ok whether the
\* pedalboard call returns
RunBoard(ctx, track_id, any, ok) ==
    IF track_id \notin DOMAIN ctx.audio_cache
    THEN ToolRet(ctx, "not_loaded")
    ELSE IF ~any
    THEN ToolRet(ctx, "no_effects")
    ELSE IF ~ok
    THEN ToolRet(ctx, "error_library")
    ELSE ToolRet(Processed(ctx, track_id, ctx.audio_cache[track_id].audio.frames), "ok")

\* apply_effects
apply_effects(ctx, track_id, any, ok) == RunBoard(ctx, track_id, any, ok)

\* apply_ladder_filter: the filter is always applied
apply_ladder_filter(ctx, track_id, ok) == RunBoard(ctx, track_id, TRUE, ok)

\* apply_parallel_effects: the dry/wet board is always applied
apply_parallel_effects(ctx, track_id, ok) == RunBoard(ctx, track_id, TRUE, ok)

\* apply_creative_effects
apply_creative_effects(ctx, track_id, any, ok) == RunBoard(ctx, track_id, any, ok)

\* automate_filter_sweep: the sweep is always applied
automate_filter_sweep(ctx, track_id, ok) == RunBoard(ctx, track_id, TRUE, ok)

\* add_track_to_mix; end_time = 0 stands for None (and for 0.0, which the
\* code treats alike)
add_track_to_mix(ctx, track_id, crossfade_duration, start_time, end_time) ==
    IF track_id \notin DOMAIN ctx.audio_cache
    THEN ToolRet(ctx, "not_loaded")
    ELSE LET track_data == ctx.audio_cache[track_id]
             audio == track_data.audio
             sample_rate == track_data.sample_rate
             start_sample == ToSamples(start_time, sample_rate)
             end_sample == IF end_time # 0 THEN ToSamples(end_time, sample_rate)
                           ELSE audio.frames
             cut == [audio EXCEPT !.frames = SliceLen(audio.frames, start_sample, end_sample)]
             segment == [audio              |-> cut,
                         sample_rate        |-> sample_rate,
                         crossfade_duration |-> crossfade_duration,
                         track_id           |-> track_id]
         IN  ToolRet([ctx EXCEPT !.mix_segments = Append(@, segment)], "ok")

\* crossfade_samples of render_final_mix
crossfade_samples(crossfade_duration, sample_rate, final_frames, frames) ==
    Min(ToSamples(crossfade_duration, sample_rate), Min(final_frames, frames))

\* a turn of the loop that always takes the plain concatenation
Combine_Concatenate(final, segment, sample_rate) ==
    IF final.failed \/ final.channels # segment.audio.channels
    THEN [final EXCEPT !.failed = TRUE]
    ELSE [final EXCEPT !.frames = final.frames + segment.audio.frames]

\* one turn of the loop of render_final_mix for a segment after the first:
\* the shape of final_audio afterwards, or the ValueError numpy raises when
\* the arrays to add or to concatenate differ in their channels.  The
\* crossfaded block has crossfade_samples frames.
Combine(final, segment, sample_rate) ==
    LET audio == segment.audio
        x == crossfade_samples(segment.crossfade_duration, sample_rate,
                               final.frames, audio.frames)
    IN  IF final.failed \/ final.channels # audio.channels
        THEN [final EXCEPT !.failed = TRUE]
        ELSE IF segment.crossfade_duration > 0 /\ x > 0
        THEN [final EXCEPT !.frames = SliceLen(final.frames, 0, final.frames - x)
                                      + x
                                      + SliceLen(audio.frames, x, audio.frames)]
        ELSE [final EXCEPT !.frames = final.frames + audio.frames]

\* the loop of render_final_mix over the first n segments
RECURSIVE Accumulate(_, _)
Accumulate(segments, n) ==
    IF n = 1
    THEN [channels |-> segments[1].audio.channels,
          frames   |-> segments[1].audio.frames,
          failed   |-> FALSE]
    ELSE Combine(Accumulate(segments, n - 1), segments[n], segments[1].sample_rate)

\* pedalboard.Limiter on audio whose peak is peak: two compressors and a
\* make-up gain, which take the peak to gained, then a hard clipper at 0 dB.
\* Zeros stay zeros.
Limiter(peak, gained) ==
    IF peak = 0 THEN 0 ELSE Min(gained, FULL_SCALE)

\* "if normalize: final_audio = limiter(final_audio, sample_rate)": the peak
\* of the audio handed to the writer
Normalized(peak, normalize, gained) ==
    IF normalize THEN Limiter(peak, gained) ELSE peak

\* the disk as render_final_mix sees it: the file at output_path ("none",
\* "partial" when it was opened for writing and the write did not finish,
\* "complete") and whether its directory exists
NewDisk == [file |-> "none", dir |-> FALSE]

\* what render_final_mix returns: the context and the disk afterwards, the
\* kind of message, and the frames handed to AudioFile.write
RenderRet(ctx, d, result, frames) ==
    [ctx |-> ctx, disk |-> d, result |-> result, frames |-> frames]

\* render_final_mix that makes the output directory before it looks at the
\* segments
render_final_mix_MkdirFirst(ctx, d, normalize, io) ==
    RenderRet(ctx, [d EXCEPT !.dir = TRUE],
              IF ctx.mix_segments = <<>> THEN "empty_mix" ELSE "error_io", 0)

\* render_final_mix(output_path, normalize) on the disk d; io says whether
\* mkdir and the write go through.  The limiter keeps the shape.
render_final_mix(ctx, d, normalize, io) ==
    IF ctx.mix_segments = <<>>
    THEN RenderRet(ctx, d, "empty_mix", 0)
    ELSE LET final_audio == Accumulate(ctx.mix_segments, Len(ctx.mix_segments))
         IN  IF final_audio.failed
             THEN RenderRet(ctx, d, "error_shape", 0)
             ELSE IF io = "mkdir_failed"
             THEN RenderRet(ctx, d, "error_io", 0)
             ELSE IF io = "write_failed"
             THEN RenderRet(ctx, [file |-> "partial", dir |-> TRUE], "error_io", 0)
             ELSE RenderRet(ctx, [file |-> "complete", dir |-> TRUE], "ok",
                            final_audio.frames)

\* the size of a context: its segments, and twice the transformations its
\* arrays went through
RECURSIVE SegmentsWork(_)
SegmentsWork(segments) ==
    IF segments = <<>> THEN 0
    ELSE 1 + 2 * Head(segments).audio.edits + SegmentsWork(Tail(segments))

RECURSIVE CacheWork(_, _)
CacheWork(cache, ids) ==
    IF ids = {} THEN 0
    ELSE LET k == CHOOSE x \in ids : TRUE
         IN  2 * cache[k].audio.edits + CacheWork(cache, ids \ {k})

Work(ctx) ==
    SegmentsWork(ctx.mix_segments) + CacheWork(ctx.audio_cache, DOMAIN ctx.audio_cache)

\* ---------------------------------------------- the parameters of a call

\* the keyword parameters of apply_effects, as its signature lists them
EffectParams == <<"reverb_room_size", "compressor_threshold_db", "chorus_rate_hz",
                  "delay_seconds", "highpass_cutoff_hz", "lowpass_cutoff_hz",
                  "bass_boost_db", "treble_boost_db", "gain_db", "phaser_rate_hz",
                  "distortion_drive_db", "noise_gate_threshold_db",
                  "pitch_shift_semitones">>

CreativeParams == <<"bitcrush_bit_depth", "clipping_threshold_db">>

Range(seq) == {seq[i] : i \in 1..Len(seq)}

\* the defaults of the signatures
EffectDefaults == [n \in Range(EffectParams) |-> 0]
CreativeDefaults == [n \in Range(CreativeParams) |-> 0]
SweepDefaults == [start_cutoff_hz |-> 200, end_cutoff_hz |-> 5000]

\* the parameters a call binds: each keyword argument under its name, the
\* default for the names the caller left out
Bind(defaults, kwargs) ==
    [n \in DOMAIN defaults |->
        IF \E i \in 1..Len(kwargs) : kwargs[i][1] = n
        THEN kwargs[CHOOSE i \in 1..Len(kwargs) : kwargs[i][1] = n][2]
        ELSE defaults[n]]

\* one stage of a chain
Stage(enabled, plugin) == IF enabled THEN <<plugin>> ELSE <<>>

\* a chain that puts the gain in front
apply_effects_chain_GainFirst(p) ==
    Stage(p.gain_db # 0, "Gain")
    \o Stage(p.noise_gate_threshold_db < 0, "NoiseGate")
    \o Stage(p.highpass_cutoff_hz > 0, "HighpassFilter")
    \o Stage(p.lowpass_cutoff_hz > 0, "LowpassFilter")
    \o Stage(p.bass_boost_db # 0, "LowShelfFilter")
    \o Stage(p.treble_boost_db # 0, "HighShelfFilter")
    \o Stage(p.distortion_drive_db > 0, "Distortion")
    \o Stage(p.compressor_threshold_db < 0, "Compressor")
    \o Stage(p.pitch_shift_semitones # 0, "PitchShift")
    \o Stage(p.chorus_rate_hz > 0, "Chorus")
    \o Stage(p.phaser_rate_hz > 0, "Phaser")
    \o Stage(p.delay_seconds > 0, "Delay")
    \o Stage(p.reverb_room_size > 0, "Reverb")

\* the list "effects" apply_effects builds from its parameters
apply_effects_chain(p) ==
    Stage(p.noise_gate_threshold_db < 0, "NoiseGate")
    \o Stage(p.highpass_cutoff_hz > 0, "HighpassFilter")
    \o Stage(p.lowpass_cutoff_hz > 0, "LowpassFilter")
    \o Stage(p.bass_boost_db # 0, "LowShelfFilter")
    \o Stage(p.treble_boost_db # 0, "HighShelfFilter")
    \o Stage(p.distortion_drive_db > 0, "Distortion")
    \o Stage(p.compressor_threshold_db < 0, "Compressor")
    \o Stage(p.pitch_shift_semitones # 0, "PitchShift")
    \o Stage(p.chorus_rate_hz > 0, "Chorus")
    \o Stage(p.phaser_rate_hz > 0, "Phaser")
    \o Stage(p.delay_seconds > 0, "Delay")
    \o Stage(p.reverb_room_size > 0, "Reverb")
    \o Stage(p.gain_db # 0, "Gain")

\* a chain that takes the bitcrusher whenever its depth is not negative
apply_creative_effects_chain_Always(p) ==
    Stage(p.bitcrush_bit_depth >= 0, "Bitcrush")
    \o Stage(p.clipping_threshold_db < 0, "Clipping")

\* the list "effects" apply_creative_effects builds from its parameters
apply_creative_effects_chain(p) ==
    Stage(p.bitcrush_bit_depth > 0, "Bitcrush")
    \o Stage(p.clipping_threshold_db < 0, "Clipping")

\* the cutoffs automate_filter_sweep sets, one for each chunk, each written
\* as num_chunks times its value in Hz: progress = i / num_chunks for
\* i = 0 .. num_chunks - 1
SweepCutoffs(frames, start_cutoff_hz, end_cutoff_hz) ==
    LET num_chunks == (frames + CHUNK_SIZE - 1) \div CHUNK_SIZE
    IN  [c \in 1..num_chunks |->
            start_cutoff_hz * num_chunks + (end_cutoff_hz - start_cutoff_hz) * (c - 1)]

\* a frame of segment seg, and the frame tail * fade_out[k] + head * fade_in[k]
\* with fade_out = cos(t * pi / 2), fade_in = sin(t * pi / 2) and
\* t = linspace(0, 1, n), k counted from 0
Frame(seg, i) == [a |-> <<seg, i>>, b |-> <<>>, k |-> 0, n |-> 0]
Blend(tail, head, k, n) == [a |-> tail.a, b |-> head.a, k |-> k, n |-> n]

Buffer(seg, frames) == [i \in 1..frames |-> Frame(seg, i)]

\* a turn of the loop that blends the head of the segment into the start of
\* the accumulator
CombineFrames_AtStart(final_audio, audio, crossfade_duration, sample_rate) ==
    LET x == crossfade_samples(crossfade_duration, sample_rate,
                               Len(final_audio), Len(audio))
    IN  IF crossfade_duration > 0 /\ x > 0
        THEN [j \in 1..x |-> Blend(final_audio[j], audio[j], j - 1, x)]
             \o SubSeq(final_audio, x + 1, Len(final_audio))
             \o SubSeq(audio, x + 1, Len(audio))
        ELSE final_audio \o audio

\* one turn of the loop of render_final_mix for a segment after the first,
\* frame by frame: final_audio afterwards
CombineFrames(final_audio, audio, crossfade_duration, sample_rate) ==
    LET x == crossfade_samples(crossfade_duration, sample_rate,
                               Len(final_audio), Len(audio))
        overlap_end == SubSeq(final_audio, Len(final_audio) - x + 1, Len(final_audio))
        overlap_start == SubSeq(audio, 1, x)
        crossfaded == [j \in 1..x |-> Blend(overlap_end[j], overlap_start[j], j - 1, x)]
    IN  IF crossfade_duration > 0
        THEN IF x > 0
             THEN SubSeq(final_audio, 1, Len(final_audio) - x)
                  \o crossfaded
                  \o SubSeq(audio, x + 1, Len(audio))
             ELSE final_audio \o audio
        ELSE final_audio \o audio

\* no call
NoCall == [tool |-> "none", track_id |-> "-", kwargs |-> <<>>,
           final_audio |-> <<>>, audio |-> <<>>, sample_rate |-> 0,
           pc |-> "none", out |-> <<>>]

\* the names a list of keyword arguments uses
Keywords(kwargs) == {kwargs[i][1] : i \in 1..Len(kwargs)}

\* the lists of at most n keyword arguments taken from a set of
\* <<name, value>> pairs, no name twice
RECURSIVE Kwargs(_, _)
Kwargs(pairs, n) ==
    IF n = 0
    THEN {<<>>}
    ELSE LET shorter == Kwargs(pairs, n - 1)
         IN  shorter \cup
             UNION {{Append(k, kw) : kw \in {q \in pairs : q[1] \notin Keywords(k)}}
                    : k \in {s \in shorter : Len(s) = n - 1}}

\* a value that switches the stage of a parameter on
OnValue(name) ==
    IF name \in {"compressor_threshold_db", "noise_gate_threshold_db",
                 "clipping_threshold_db"}
    THEN -6
    ELSE IF name = "bitcrush_bit_depth" THEN 8 ELSE 1

\* every parameter of apply_effects switched on, in the order of the signature
AllOn == [i \in 1..Len(EffectParams) |-> <<EffectParams[i], OnValue(EffectParams[i])>>]

\* the keyword arguments the agent picks from: a value that switches the stage
\* on for each parameter, and some that do not or that cut instead of boost
EffectArgs ==
    {<<name, OnValue(name)>> : name \in Range(EffectParams)}
    \cup {<<"gain_db", -6>>, <<"noise_gate_threshold_db", 1>>}

CreativeArgs ==
    {<<name, OnValue(name)>> : name \in Range(CreativeParams)}
    \cup {<<"clipping_threshold_db", 1>>}

Reverse(seq) == [i \in 1..Len(seq) |-> seq[Len(seq) + 1 - i]]

\* the calls the agent may be about to make
PendingCalls ==
    LET pending(tool_name, kwargs) ==
            [NoCall EXCEPT !.tool = tool_name, !.track_id = "track_1",
                           !.kwargs = kwargs, !.pc = "pending"]
    IN  {pending("apply_effects", k) :
            k \in Kwargs(EffectArgs, MaxArgs) \cup {AllOn, Reverse(AllOn)}}
        \cup {pending("apply_creative_effects", k) :
            k \in Kwargs(CreativeArgs, MaxArgs)}
        \cup {pending("automate_filter_sweep", k) :
            k \in {<<>>,
                   <<<<"start_cutoff_hz", 1000>>>>,
                   <<<<"end_cutoff_hz", 200>>, <<"start_cutoff_hz", 5000>>>>,
                   <<<<"start_cutoff_hz", 300>>, <<"end_cutoff_hz", 300>>>>}}
        \cup {[NoCall EXCEPT !.tool = "render_final_mix",
                             !.kwargs = <<<<"crossfade_duration", c>>>>,
                             !.final_audio = Buffer(1, m),
                             !.audio = Buffer(2, n),
                             !.sample_rate = 10,
                             !.pc = "pending"] :
                 c \in {0, 1, 2, 5}, m \in 0..MaxFrames, n \in 0..MaxFrames}

\* ------------------------------------------- DJAgentClient and the agent
\* (services/dj_agent_client.py, floppy_mix_agent.py: ProgressHook, main)

\* a line the agent prints to stderr: "STATUS: text", "ERROR: text"
Line(prefix, text) == [prefix |-> prefix, text |-> text]

\* the tools the hook is asked about
HookTools == {"load_audio_track", "render_final_mix"}

\* no subprocess yet.  child is the process create_subprocess_exec returned
\* ("uv run"), script the interpreter that runs floppy_mix_agent.py; launcher
\* says whether uv replaced itself by the interpreter ("exec": one process) or
\* started it as a child of its own ("spawn").  hook lists what the progress
\* hook was called for and whether it printed a status line.
NoAgent == [launcher   |-> "none",
            child      |-> "none",
            script     |-> "none",
            returncode |-> 0,
            exit_code  |-> 0,
            stdout     |-> "",
            stderr     |-> <<>>,
            pc         |-> "none",
            calls      |-> 0,
            hook       |-> <<>>,
            emitted    |-> <<>>]

\* create_mix has not been called
NewClient == [pc        |-> "idle",
              callback  |-> FALSE,
              raised    |-> "none",
              result    |-> "none",
              timer     |-> "none",
              delivered |-> <<>>]

\* whether a process still holds the write ends of the pipes
PipesOpen(a) == a.child = "running" \/ a.script = "running"

\* the interpreter ends with exit code rc and response on stdout; with
\* launcher "exec" it is the child itself
ScriptExits(a, response, rc) ==
    [a EXCEPT !.script = "exited",
              !.pc = "done",
              !.stdout = response,
              !.exit_code = rc,
              !.child = IF a.launcher = "exec" THEN "exited" ELSE @,
              !.returncode = IF a.launcher = "exec" THEN rc ELSE @]

\* ProgressHook.on_tool_start: one status line on stderr
on_tool_start(a, tool_name) ==
    [a EXCEPT !.pc = tool_name,
              !.calls = @ + 1,
              !.hook = Append(@, [tool |-> tool_name, phase |-> "start", reported |-> TRUE]),
              !.stderr = Append(@, Line("STATUS:", <<tool_name, "start">>)),
              !.emitted = Append(@, <<tool_name, "start">>)]

\* ProgressHook.on_tool_end: a debug log entry, nothing on stderr
on_tool_end(a) ==
    [a EXCEPT !.pc = "idle",
              !.hook = Append(@, [tool |-> a.pc, phase |-> "end", reported |-> FALSE])]

\* main after handle_mix_request returned: the final status line, the
\* response with status "success", exit code 0
main_success(a) ==
    ScriptExits([a EXCEPT !.stderr = Append(@, Line("STATUS:", <<"mix", "complete">>)),
                          !.emitted = Append(@, <<"mix", "complete">>)],
                "success", 0)

\* main after handle_mix_request raised: the error line, the response with
\* status "error", sys.exit(1)
main_error(a) ==
    ScriptExits([a EXCEPT !.stderr = Append(@, Line("ERROR:", <<"agent", "failed">>))],
                "error", 1)

\* read_stderr for one line: a status line goes to progress_callback without
\* its prefix
read_stderr(c, line) ==
    IF line.prefix = "STATUS:" /\ c.callback
    THEN [c EXCEPT !.delivered = Append(@, line.text)]
    ELSE c

\* create_mix is over: what it raised or returned
Finished(c, exc, result) == [c EXCEPT !.pc = "done", !.raised = exc, !.result = result]

\* _monitor_agent_progress after the pipes are read and agent_process.wait()
\* returned: the exit code first, then the response
_monitor_agent_progress(c, a, file_exists) ==
    IF a.returncode # 0
    THEN Finished(c, "AgentError", "none")
    ELSE IF a.stdout = ""
    THEN Finished(c, "AgentError", "none")
    ELSE IF a.stdout = "error"
    THEN Finished(c, "MixingError", "none")
    ELSE IF ~file_exists
    THEN Finished(c, "MixingError", "none")
    ELSE Finished(c, "none", "mix_file_path")

\* agent_process.kill(): SIGKILL to the process create_subprocess_exec
\* returned, and to no other
kill(a) ==
    IF a.child # "running"
    THEN a
    ELSE [a EXCEPT !.child = "killed",
                   !.returncode = -9,
                   !.script = IF a.launcher = "exec" THEN "killed" ELSE @]

\* --------------------------------------------------------- FloppyMixView
\* (views/floppy_mix.py, widgets/track_selection_panel.py)

\* the tracks music_library.get_tracks() hands to the panel
PanelTracks == <<"A", "B">>

\* sorted(indices) as a list
RECURSIVE Sorted(_)
Sorted(indices) ==
    IF indices = {} THEN <<>>
    ELSE LET least == CHOOSE i \in indices : \A j \in indices : i <= j
         IN  <<least>> \o Sorted(indices \ {least})

\* a sequence without its elements equal to x
Without(seq, x) == SelectSeq(seq, LAMBDA e : e # x)

\* TrackSelectionPanel.__init__.  _track_items maps the 0-based row to its
\* track; picked is the order in which the user selected the tracks that are
\* selected now
NewPanel == [track_items      |-> <<>>,
             selected_indices |-> {},
             selected_tracks  |-> <<>>,
             picked           |-> <<>>]

\* refresh_tracks
refresh_tracks(pn, tracks) ==
    [track_items      |-> tracks,
     selected_indices |-> {},
     selected_tracks  |-> <<>>,
     picked           |-> <<>>]

\* clear_selection
clear_selection(pn) ==
    [pn EXCEPT !.selected_indices = {}, !.selected_tracks = <<>>, !.picked = <<>>]

\* toggle_track_selection: the row of the track goes into or out of
\* _selected_indices, and selected_tracks is rebuilt from the sorted rows
toggle_track_selection(pn, track) ==
    IF ~InList(pn.track_items, track)
    THEN pn
    ELSE LET idx == ListIndex(pn.track_items, track)
             indices == IF idx \in pn.selected_indices
                        THEN pn.selected_indices \ {idx}
                        ELSE pn.selected_indices \cup {idx}
             rows == Sorted(indices)
         IN  [pn EXCEPT !.selected_indices = indices,
                        !.selected_tracks = [k \in 1..Len(rows) |->
                                                ListAt(pn.track_items, rows[k])],
                        !.picked = IF idx \in pn.selected_indices
                                   THEN Without(@, track)
                                   ELSE Append(@, track)]

\* a str, as far as the view looks at it: what it names (the number of a
\* mix and, for one character of its path, the place of the character) and
\* how many characters it has
Str(id, len) == [id |-> id, len |-> len]

\* None where a path is expected
NoPath == Str(<<0, 0>>, 0)

\* the path create_mix returns for the mix numbered k of a user whose home
\* directory has home_len characters:
\* <home>/.local/share/sigplay/temp_mixes/floppy_mix_YYYYMMDD_HHMMSS.wav
MixFilePath(k, home_len) == Str(<<k, 0>>, home_len + TEMP_DIR_LEN + 1 + MIX_NAME_LEN)

HomeLens == {5}

\* "mix_file_path, statistics = value" for a str value: a str unpacks into
\* its characters, and into two names only when it has two of them
Unpack2(value) ==
    IF value.len = 2
    THEN [exc |-> FALSE, first |-> Str(<<value.id[1], 1>>, 1),
                         second |-> Str(<<value.id[1], 2>>, 1)]
    ELSE [exc |-> TRUE, first |-> NoPath, second |-> NoPath]

\* the user's answers to the filename prompt: a text made of a letter, the
\* space and (as one element) the characters ".wav"; the prompt hands on
\* None for the empty text and for a cancelled prompt, which is <<>> here
FilenameChars == {"a", " ", ".wav"}
FilenameInputs == SeqsUpTo(FilenameChars, MaxNameLen)

\* str.strip()
RECURSIVE StripLeft(_)
StripLeft(text) ==
    IF text # <<>> /\ Head(text) = " " THEN StripLeft(Tail(text)) ELSE text

Strip(text) == Reverse(StripLeft(Reverse(StripLeft(text))))

\* re.sub(r'\s+', '_', text)
RECURSIVE Underscored(_)
Underscored(text) ==
    IF text = <<>> THEN <<>>
    ELSE IF Head(text) = " "
    THEN <<"_">> \o Underscored(StripLeft(text))
    ELSE <<Head(text)>> \o Underscored(Tail(text))

\* _validate_filename: the sanitized name, or <<>> for None
_validate_filename(filename) ==
    IF filename = <<>> \/ Strip(filename) = <<>>
    THEN <<>>
    ELSE LET stripped == Strip(filename)
             stem == IF stripped[Len(stripped)] = ".wav"
                     THEN SubSeq(stripped, 1, Len(stripped) - 1)
                     ELSE stripped
         IN  IF stem = <<>> \/ \E i \in 1..Len(stem) : stem[i] \notin {"a", " ", "-", "_"}
             THEN <<>>
             ELSE Underscored(stem)

\* FloppyMixView.__init__; shown says whether the switcher shows the view
NewView == [mixing_state  |-> "idle",
            mix_file_path |-> NoPath,
            instructions  |-> FALSE,
            shown         |-> FALSE]

\* no temporary mix file, and the music directory as the user left it
NewFiles == [temp |-> {}, music |-> {<<"a", ".wav">>}]

\* what the handlers of the view work on
World(v, pn, f, p) == [view |-> v, panel |-> pn, fs |-> f, player |-> p]

\* _validate_inputs: whether there is an error message
_validate_inputs(w) == w.panel.selected_tracks = <<>> \/ ~w.view.instructions

\* start_mixing up to "await client.create_mix(...)": the view afterwards,
\* whether create_mix was called, and the tracks handed to it
start_mixing(w) ==
    IF w.view.mixing_state # "idle"
    THEN [w |-> w, launched |-> FALSE, tracks |-> <<>>]
    ELSE IF _validate_inputs(w)
    THEN [w |-> w, launched |-> FALSE, tracks |-> <<>>]
    ELSE [w        |-> [w EXCEPT !.view.mixing_state = "mixing"],
          launched |-> TRUE,
          tracks   |-> w.panel.selected_tracks]

\* _stop_preview_playback
_stop_preview_playback(w) ==
    IF /\ w.player.current_track # None
       /\ w.view.mix_file_path # NoPath
       /\ w.player.current_track = PREVIEW
    THEN [w EXCEPT !.player = stop(w.player)]
    ELSE w

\* _delete_temp_mix_file
_delete_temp_mix_file(w) ==
    IF w.view.mix_file_path # NoPath
    THEN [w EXCEPT !.fs.temp = @ \ {w.view.mix_file_path}]
    ELSE w

\* _start_preview_playback at time t; ok says whether the player can load
\* the file.  An exception of play() is caught and notified.
_start_preview_playback(w, ok, t) ==
    IF w.view.mix_file_path = NoPath
    THEN w
    ELSE IF w.view.mix_file_path \notin w.fs.temp
    THEN w
    ELSE [w EXCEPT !.player = play(w.player, PREVIEW, ok, t).p]

\* on_mix_complete(mix_file_path, statistics)
on_mix_complete(w, mix_file_path, ok, t) ==
    _start_preview_playback(
        [w EXCEPT !.view.mix_file_path = mix_file_path,
                  !.view.mixing_state = "previewing"], ok, t)

\* on_mix_error
on_mix_error(w) == [w EXCEPT !.view.mixing_state = "idle"]

\* the rest of start_mixing once create_mix has ended; value is what it
\* returned, exc whether it raised instead
start_mixing_resume(w, exc, value, ok, t) ==
    IF exc
    THEN on_mix_error(w)
    ELSE LET u == Unpack2(value)
         IN  IF u.exc
             THEN on_mix_error(w)
             ELSE on_mix_complete(w, u.first, ok, t)

\* cleanup
cleanup(w) ==
    LET u == IF w.view.mix_file_path # NoPath /\ w.view.mixing_state = "previewing"
             THEN _delete_temp_mix_file(_stop_preview_playback(w))
             ELSE w
    IN  [u EXCEPT !.view.mixing_state = "idle",
                  !.view.mix_file_path = NoPath,
                  !.panel = clear_selection(@)]

\* _discard_mix
_discard_mix(w) ==
    IF w.view.mix_file_path = NoPath
    THEN w
    ELSE IF w.view.mixing_state # "previewing"
    THEN w
    ELSE LET u == _delete_temp_mix_file(_stop_preview_playback(w))
         IN  [u EXCEPT !.view.mixing_state = "idle",
                       !.view.mix_file_path = NoPath,
                       !.view.instructions = FALSE,
                       !.panel = clear_selection(@)]

\* the end of a save that went through: the preview is stopped, the
\* temporary file deleted, the view reset and left for the main view
Saved(w) ==
    LET u == _delete_temp_mix_file(_stop_preview_playback(w))
    IN  cleanup([u EXCEPT !.view.mix_file_path = NoPath,
                          !.view.mixing_state = "idle",
                          !.view.instructions = FALSE,
                          !.view.shown = FALSE,
                          !.panel = clear_selection(@)])

\* _handle_filename_input that copies over a file of the same name
_handle_filename_input_Overwrites(w, filename, io_ok) ==
    LET validated_filename == _validate_filename(filename)
        destination == validated_filename \o <<".wav">>
    IN  IF filename = <<>> THEN w
        ELSE IF w.view.mix_file_path = NoPath THEN w
        ELSE IF validated_filename = <<>> THEN w
        ELSE IF w.view.mix_file_path \notin w.fs.temp THEN w
        ELSE IF ~io_ok THEN w
        ELSE Saved([w EXCEPT !.fs.music = @ \cup {destination}])

\* _handle_filename_input(filename); io_ok says whether shutil.copy2 goes
\* through
_handle_filename_input(w, filename, io_ok) ==
    LET validated_filename == _validate_filename(filename)
        destination == validated_filename \o <<".wav">>
    IN  IF filename = <<>> THEN w
        ELSE IF w.view.mix_file_path = NoPath THEN w
        ELSE IF validated_filename = <<>> THEN w
        ELSE IF destination \in w.fs.music THEN w
        ELSE IF w.view.mix_file_path \notin w.fs.temp THEN w
        ELSE IF ~io_ok THEN w
        ELSE Saved([w EXCEPT !.fs.music = @ \cup {destination}])

\* _save_mix, with the answer the user gives to the filename prompt
_save_mix(w, filename, io_ok) ==
    IF w.view.mix_file_path = NoPath THEN w
    ELSE IF w.view.mixing_state # "previewing" THEN w
    ELSE _handle_filename_input(w, filename, io_ok)

\* no handler of the view has run.  pre is mixing_state before the handler,
\* changed whether it changed the view, the panel, a file or the player,
\* in_flight the calls of create_mix that had not ended; launched, tracks and picked say whether start_mixing called
\* create_mix, with which tracks, and in which order the user had picked
\* them; path is what create_mix returned and stale whether cleanup() had
\* run since it was called; found says whether the name chosen for a save
\* was taken
NoHandler == [op        |-> "init",
              pre       |-> "idle",
              changed   |-> FALSE,
              in_flight |-> 0,
              launched  |-> FALSE,
              tracks    |-> <<>>,
              picked    |-> <<>>,
              path      |-> NoPath,
              stale     |-> FALSE,
              found     |-> FALSE]

\* no call of create_mix yet
NoMixes == [launched |-> 0, calls |-> <<>>]

\* ------------------------------------------------------------ LyricsView

\* LyricsView.__init__. loads are the calls of _load_lyrics_for_track in the
\* order they were made, each with the transcription task it creates; the
\* pending task is named by the number of its load, 0 is None. ready is the
\* event loop's queue of steps that are due, handler is on_list_view_selected.
NewLyricsView == [current_track |-> None,
                  is_loading    |-> FALSE,
                  pending       |-> 0,
                  loads         |-> <<>>,
                  ready         |-> <<>>,
                  handler       |-> [pc |-> "idle", track |-> None, task |-> 0]]

\* a step the event loop is due to run
Due(kind, id) == [kind |-> kind, id |-> id]

\* a call of _load_lyrics_for_track
Load(track, pc, task, inline) == [track |-> track, pc |-> pc, task |-> task, inline |-> inline]

\* Task.done() of the transcription task of load id
TaskDone(L, id) == L.loads[id].task \in {"cancelled", "finished"}

\* Task.cancel(): the CancelledError is thrown into the task at its next step
cancel_task(L, id) ==
    IF L.loads[id].task = "running"
    THEN [L EXCEPT !.loads[id].task = "cancelling",
                   !.ready = Append(@, Due("task", id))]
    ELSE L

\* if self._pending_transcription_task and not ...done(): ...cancel()
CancelPending(L) ==
    IF L.pending # 0 /\ ~TaskDone(L, L.pending) THEN cancel_task(L, L.pending) ELSE L

\* _load_lyrics_for_track up to its await: load id creates its transcription
\* task and waits for it
load_begin(L, id) ==
    [L EXCEPT !.is_loading = TRUE,
              !.pending = id,
              !.loads[id].pc = "awaiting",
              !.loads[id].task = "running"]

\* _load_lyrics_for_track from its await on: whatever the task did, the
\* finally clause runs
load_end(L, id) ==
    [L EXCEPT !.is_loading = FALSE,
              !.pending = 0,
              !.loads[id].pc = "done",
              !.handler.pc = IF L.loads[id].inline THEN "idle" ELSE @]

\* the lyrics view and the player its handlers call
Both(L, p) == [l |-> L, p |-> p]

\* action_select_track: cancels without waiting and leaves the load to a
\* task of its own
action_select_track(L, p, track, ok, t) ==
    LET c == [CancelPending(L) EXCEPT !.current_track = track]
        r == play(p, track, ok, t)
        id == Len(L.loads) + 1
    IN  IF r.exc
        THEN Both(c, r.p)
        ELSE Both([c EXCEPT !.loads = Append(@, Load(track, "created", "none", FALSE)),
                            !.ready = Append(@, Due("load", id))],
                  r.p)

\* on_list_view_selected after the pending task is out of the way
selected_resume(L, p, ok, t) ==
    LET track == L.handler.track
        r == play(p, track, ok, t)
        id == Len(L.loads) + 1
        c == [L EXCEPT !.current_track = track]
    IN  IF r.exc
        THEN Both([c EXCEPT !.handler.pc = "idle"], r.p)
        ELSE Both(load_begin([c EXCEPT !.loads = Append(@, Load(track, "created", "none", TRUE)),
                                       !.handler.pc = "loading"], id),
                  r.p)

\* on_list_view_selected: cancels the pending task and waits until it is done
on_list_view_selected(L, p, track, ok, t) ==
    LET h == [L EXCEPT !.handler.track = track]
    IN  IF L.pending # 0 /\ ~TaskDone(L, L.pending)
        THEN Both([cancel_task(h, L.pending) EXCEPT !.handler.pc = "awaiting_cancel",
                                                    !.handler.task = L.pending],
                  p)
        ELSE selected_resume(h, p, ok, t)

\* the cancelled task ends and wakes those that wait for it, in the order
\* they began to wait
task_step(L, id) ==
    LET woken == IF L.handler.pc = "awaiting_cancel" /\ L.handler.task = id
                 THEN <<Due("load", id), Due("handler", 0)>>
                 ELSE <<Due("load", id)>>
    IN  [L EXCEPT !.loads[id].task = "cancelled",
                  !.ready = Tail(@) \o woken]

\* a step of the task that runs load id
load_step(L, id) ==
    LET popped == [L EXCEPT !.ready = Tail(@)]
    IN  IF L.loads[id].pc = "created" THEN load_begin(popped, id)
        ELSE IF L.loads[id].pc = "awaiting" THEN load_end(popped, id)
        ELSE popped

\* the transcription of load id returns or raises: the load that waits is woken
task_finished(L, id) ==
    [L EXCEPT !.loads[id].task = "finished",
              !.ready = Append(@, Due("load", id))]

\* LyricsView.cleanup
lyrics_cleanup(L) == CancelPending(L)

\* ------------------------------------------------------------ bookkeeping

Position == get_position(player, now)

Snapshot == [end_event     |-> end_event,
             last_call     |-> last_call,
             state         |-> player.state,
             current_track |-> player.current_track,
             current_index |-> player.current_index,
             position      |-> Position,
             volume        |-> player.volume]

\* set_playlist is recorded with the state it found alone
StateOnly == [end_event     |-> FALSE,
              last_call     |-> "",
              state         |-> player.state,
              current_track |-> None,
              current_index |-> -1,
              position      |-> 0,
              volume        |-> player.volume]

NoArg == "-"

TypeOK ==
    /\ now \in 0..MaxClock
    /\ player.state \in PlaybackState
    /\ player.current_track \in Tracks \cup {None}
    /\ player.playlist \in Playlists
    /\ player.volume \in VOLUME_MIN..VOLUME_MAX
    /\ player.music \in {"idle", "busy", "paused"}
    /\ end_event \in BOOLEAN
    /\ raised \in BOOLEAN
    /\ advanced \in BOOLEAN
    /\ waited \in BOOLEAN
    /\ played \in 0..MaxClock
    /\ last_call \in {"", "stop", "play_ok", "play_failed"}
    /\ skips \in 0..(MaxPlaylistLen + 1)

InitBase ==
    /\ now = 0
    /\ player = NewPlayer
    /\ end_event = FALSE
    /\ op = "init"
    /\ arg = NoArg
    /\ raised = FALSE
    /\ advanced = FALSE
    /\ played = 0
    /\ waited = FALSE
    /\ last_call = ""
    /\ skips = 0
    /\ pre = Snapshot
    /\ analyzer = NewAnalyzer
    /\ callback = [pc |-> "idle", inv |-> 0, stored |-> 0, indata |-> <<>>]
    /\ reader = [pc             |-> "idle",
                 audio_data     |-> <<>>,
                 reads          |-> 0,
                 op             |-> "init",
                 raised         |-> FALSE,
                 active_at_call |-> FALSE,
                 after_restart  |-> FALSE,
                 boundary       |-> "none",
                 current        |-> ZeroBands,
                 result         |-> ZeroBands]
    /\ mix = NewMixContext
    /\ disk = NewDisk
    /\ tool = [name          |-> "init",
               track_id      |-> NoArg,
               result        |-> "ok",
               was_loaded    |-> FALSE,
               had_segments  |-> FALSE,
               ctx_changed   |-> FALSE,
               audio_changed |-> FALSE,
               disk_changed  |-> FALSE,
               target        |-> 0,
               source        |-> 0,
               frames        |-> 0,
               normalize     |-> FALSE,
               peak_in       |-> 0,
               peak_out      |-> 0]
    /\ request = NewRequest
    /\ view = NewView
    /\ panel = NewPanel
    /\ fs = NewFiles
    /\ mixes = NoMixes
    /\ ui = NoHandler
    /\ lyrics = NewLyricsView
    /\ agent = NoAgent
    /\ client = NewClient

Init ==
    /\ InitBase
    /\ call = NoCall

\* ------------------------------------------------------------ operations

\* operation name ran with argument a and outcome r
Called(name, a, r) ==
    LET started == r.did = "play_ok"
    IN  /\ player' = r.p
        /\ raised' = r.exc
        /\ op' = name
        /\ arg' = a
        /\ pre' = IF name = "set_playlist" THEN StateOnly ELSE Snapshot
        /\ played' = IF r.p.state = STOPPED \/ started THEN 0 ELSE played
        /\ waited' = IF r.p.state = STOPPED \/ started THEN FALSE ELSE waited
        /\ last_call' = IF r.did = "" THEN last_call ELSE r.did
        /\ skips' = IF name = "next_track" /\ ~r.exc /\ player.playlist # <<>>
                     THEN Min(skips + 1, MaxPlaylistLen + 1)
                     ELSE 0
        /\ UNCHANGED <<now, analyzerVars, mixVars, callVars, clientVars, viewVars, lyricsVars>>

\* the wall clock advances by one second
Tick ==
    /\ now < MaxClock
    /\ now' = now + 1
    /\ played' = IF player.state = PLAYING THEN played + 1 ELSE played
    /\ waited' = (waited \/ player.state = PAUSED)
    /\ op' = "tick"
    /\ arg' = NoArg
    /\ raised' = FALSE
    /\ pre' = Snapshot
    /\ advanced' = FALSE
    /\ skips' = 0
    /\ UNCHANGED <<player, end_event, last_call, analyzerVars, mixVars, callVars, clientVars, viewVars, lyricsVars>>

Play ==
    \E track \in Tracks, ok \in BOOLEAN :
        /\ Called("play", track, play(player, track, ok, now))
        /\ advanced' = FALSE
        /\ UNCHANGED end_event

Pause ==
    /\ Called("pause", NoArg, Ret(pause(player, now), FALSE, ""))
    /\ advanced' = FALSE
    /\ UNCHANGED end_event

Resume ==
    /\ Called("resume", NoArg, Ret(resume(player, now), FALSE, ""))
    /\ advanced' = FALSE
    /\ UNCHANGED end_event

Stop ==
    /\ Called("stop", NoArg, Ret(stop(player), FALSE, "stop"))
    /\ advanced' = FALSE
    /\ UNCHANGED end_event

NextTrack ==
    \E ok \in BOOLEAN :
        /\ Called("next_track", NoArg, next_track(player, ok, now))
        /\ advanced' = FALSE
        /\ UNCHANGED end_event

PreviousTrack ==
    \E ok \in BOOLEAN :
        /\ Called("previous_track", NoArg, previous_track(player, ok, now))
        /\ advanced' = FALSE
        /\ UNCHANGED end_event

SetPlaylist ==
    \E tracks \in Playlists : \E start_index \in -1..Len(tracks) :
        /\ Called("set_playlist", NoArg,
                  Ret(set_playlist(player, tracks, start_index), FALSE, ""))
        /\ advanced' = FALSE
        /\ UNCHANGED end_event

\* the output device reaches the end of the stream it is playing
\* (pygame.mixer.music.set_endevent): the end-of-stream flag is set
EndEvent ==
    /\ player.music = "busy"
    /\ Called("end_event", NoArg, Ret([player EXCEPT !.music = "idle"], FALSE, ""))
    /\ end_event' = TRUE
    /\ advanced' = FALSE

CheckTrackEnd ==
    \E ok \in BOOLEAN :
        LET c == _check_track_end(player, end_event, ok, now)
        IN  /\ Called("check_track_end", NoArg, c.r)
            /\ end_event' = c.flag
            /\ advanced' = c.advanced

Next ==
    \/ Tick
    \/ Play
    \/ Pause
    \/ Resume
    \/ Stop
    \/ NextTrack
    \/ PreviousTrack
    \/ SetPlaylist
    \/ EndEvent
    \/ CheckTrackEnd

Spec == Init /\ [][Next]_vars

\* ------------------------------------------------------------ volume calls

Levels == {-150, -1, 0, 1, 50, 99, 100, 101, 250}
Amounts == {-120, -VOLUME_STEP, 0, VOLUME_STEP, 7, 120}

SetVolume ==
    \E level \in Levels :
        /\ Called("set_volume", level, Ret(set_volume(player, level), FALSE, ""))
        /\ advanced' = FALSE
        /\ UNCHANGED end_event

IncreaseVolume ==
    \E amount \in Amounts :
        /\ Called("increase_volume", amount, Ret(increase_volume(player, amount), FALSE, ""))
        /\ advanced' = FALSE
        /\ UNCHANGED end_event

DecreaseVolume ==
    \E amount \in Amounts :
        /\ Called("decrease_volume", amount, Ret(decrease_volume(player, amount), FALSE, ""))
        /\ advanced' = FALSE
        /\ UNCHANGED end_event

NextVolume ==
    \/ SetVolume
    \/ IncreaseVolume
    \/ DecreaseVolume

SpecVolume == Init /\ [][NextVolume]_vars

\* ------------------------------------------------- the analyzer's threads

\* SpectrumAnalyzer.start, called from the UI thread (VisualizerView.on_mount)
AnalyzerStart ==
    \E outcome \in {"ok", "no_device", "start_failed"} :
        LET r == SpectrumAnalyzer_start(analyzer, outcome)
        IN  /\ reader.pc = "idle"
            /\ analyzer' = r.a
            /\ reader' = [reader EXCEPT
                   !.op = "start",
                   !.raised = r.exc,
                   !.boundary = IF @ = "stopped" /\ is_active(r.a) THEN "restarted" ELSE @]
            /\ UNCHANGED <<callback, playerVars, mixVars, callVars, clientVars, viewVars, lyricsVars>>

\* SpectrumAnalyzer.stop, called from the UI thread; stream.stop() returns
\* once the callback in flight has returned
AnalyzerStop ==
    /\ reader.pc = "idle"
    /\ callback.pc = "idle"
    /\ analyzer' = SpectrumAnalyzer_stop(analyzer)
    /\ reader' = [reader EXCEPT
           !.op = "stop",
           !.raised = FALSE,
           !.boundary = IF is_active(analyzer) THEN "stopped" ELSE @]
    /\ UNCHANGED <<callback, playerVars, mixVars, callVars, clientVars, viewVars, lyricsVars>>

\* PortAudio calls _audio_callback with a new block while the stream runs
CallbackArrives ==
    \E tone \in Tones, channels \in 1..2 :
        /\ is_active(analyzer)
        /\ callback.pc = "idle"
        /\ callback.inv < MaxCallbacks
        /\ callback' = [callback EXCEPT
               !.pc = "waiting",
               !.inv = @ + 1,
               !.indata = Indata(callback.inv + 1, tone, channels)]
        /\ UNCHANGED <<analyzer, reader, playerVars, mixVars, callVars, clientVars, viewVars, lyricsVars>>

\* _audio_callback enters "with self._buffer_lock:"
CallbackLock ==
    /\ callback.pc = "waiting"
    /\ Lock_acquire(analyzer.buffer_lock)
    /\ analyzer' = [analyzer EXCEPT !.buffer_lock = "callback"]
    /\ callback' = [callback EXCEPT !.pc = "locked"]
    /\ UNCHANGED <<reader, playerVars, mixVars, callVars, clientVars, viewVars, lyricsVars>>

\* _audio_callback binds the new array and leaves the with block
CallbackStore ==
    /\ callback.pc = "locked"
    /\ analyzer' = [analyzer EXCEPT !.audio_buffer = _audio_callback(callback.indata),
                                    !.buffer_lock = "free"]
    /\ callback' = [callback EXCEPT !.pc = "idle", !.stored = callback.inv, !.indata = <<>>]
    /\ UNCHANGED <<reader, playerVars, mixVars, callVars, clientVars, viewVars, lyricsVars>>

\* get_frequency_bands enters "with self._buffer_lock:"
ReaderLock ==
    /\ reader.pc = "idle"
    /\ reader.reads < MaxReads
    /\ Lock_acquire(analyzer.buffer_lock)
    /\ analyzer' = [analyzer EXCEPT !.buffer_lock = "reader"]
    /\ reader' = [reader EXCEPT
           !.pc = "copying",
           !.audio_data = <<>>,
           !.reads = @ + 1,
           !.active_at_call = is_active(analyzer),
           !.after_restart = (reader.boundary = "restarted")]
    /\ UNCHANGED <<callback, playerVars, mixVars, callVars, clientVars, viewVars, lyricsVars>>

\* self._audio_buffer.copy() copies one more sample
ReaderCopy ==
    /\ reader.pc = "copying"
    /\ Len(reader.audio_data) < Len(analyzer.audio_buffer)
    /\ reader' = [reader EXCEPT
           !.audio_data = Append(@, analyzer.audio_buffer[Len(@) + 1])]
    /\ UNCHANGED <<analyzer, callback, playerVars, mixVars, callVars, clientVars, viewVars, lyricsVars>>

\* the copy is whole: get_frequency_bands leaves the with block
ReaderUnlock ==
    /\ reader.pc = "copying"
    /\ Len(reader.audio_data) >= Len(analyzer.audio_buffer)
    /\ analyzer' = [analyzer EXCEPT !.buffer_lock = "free"]
    /\ reader' = [reader EXCEPT !.pc = "copied"]
    /\ UNCHANGED <<callback, playerVars, mixVars, callVars, clientVars, viewVars, lyricsVars>>

\* the rest of get_frequency_bands, up to its return
ReaderAnalyze ==
    LET r == get_frequency_bands(analyzer, reader.audio_data)
    IN  /\ reader.pc = "copied"
        /\ analyzer' = r.a
        /\ reader' = [reader EXCEPT
               !.pc = "idle",
               !.op = "get_frequency_bands",
               !.raised = FALSE,
               !.audio_data = <<>>,
               !.current = r.current,
               !.result = r.bands,
               !.boundary = "none"]
        /\ UNCHANGED <<callback, playerVars, mixVars, callVars, clientVars, viewVars, lyricsVars>>

NextAnalyzer ==
    \/ AnalyzerStart
    \/ AnalyzerStop
    \/ CallbackArrives
    \/ CallbackLock
    \/ CallbackStore
    \/ ReaderLock
    \/ ReaderCopy
    \/ ReaderUnlock
    \/ ReaderAnalyze

SpecAnalyzer == Init /\ [][NextAnalyzer]_vars

\* ------------------------------------------------------ the agent's tools

\* the tempo beat_track finds in the files
Tempos == {120}

\* the <<target_bpm, source_bpm>> the agent asks for (source_bpm = 0: None)
StretchInputs == {<<59, 60>>, <<201, 200>>, <<60, 51>>, <<200, 230>>,
                  <<120, 101>>, <<120, 139>>, <<120, 120>>, <<138, 120>>, <<138, 0>>,
                  <<100, 95>>, <<100, 105>>}

Crossfades == {0, 30}
StartTimes == {0}
EndTimes == {0}

NoExtra == [target |-> 0, source |-> 0, frames |-> 0,
            normalize |-> FALSE, peak_in |-> 0, peak_out |-> 0]

\* the audio the context holds for a track
AudioOf(ctx, track_id) ==
    IF track_id \in DOMAIN ctx.audio_cache
    THEN <<ctx.audio_cache[track_id].audio>>
    ELSE <<>>

\* the frames of the audio the context holds for a track
FramesOf(ctx, track_id) ==
    IF track_id \in DOMAIN ctx.audio_cache
    THEN ctx.audio_cache[track_id].audio.frames
    ELSE 0

\* the tool name ran for track_id and returned r, leaving the disk as d
ToolCalledWith(name, track_id, r, d, x, c) ==
    /\ Work(r.ctx) <= MaxWork
    /\ mix' = r.ctx
    /\ disk' = d
    /\ tool' = [name          |-> name,
                track_id      |-> track_id,
                result        |-> r.result,
                was_loaded    |-> track_id \in DOMAIN mix.audio_cache,
                had_segments  |-> mix.mix_segments # <<>>,
                ctx_changed   |-> r.ctx # mix,
                audio_changed |-> AudioOf(r.ctx, track_id) # AudioOf(mix, track_id),
                disk_changed  |-> d # disk,
                target        |-> x.target,
                source        |-> x.source,
                frames        |-> x.frames,
                normalize     |-> x.normalize,
                peak_in       |-> x.peak_in,
                peak_out      |-> x.peak_out]
    /\ call' = c
    /\ UNCHANGED <<request, playerVars, analyzerVars, clientVars, viewVars, lyricsVars>>

ToolCalled(name, track_id, r, d, x) == ToolCalledWith(name, track_id, r, d, x, call)

LoadAudioTrack ==
    \E track_path \in TrackPaths, track_id \in LoadedIds :
        ToolCalled("load_audio_track", track_id,
                   load_audio_track(mix, track_path, track_id), disk, NoExtra)

DetectBpm ==
    \E track_id \in TrackIds, tempo \in Tempos :
        ToolCalled("detect_bpm", track_id, detect_bpm(mix, track_id, tempo), disk, NoExtra)

TimeStretchToBpm ==
    \E track_id \in TrackIds, i \in StretchInputs, tempo \in Tempos, ok \in BOOLEAN :
        LET r == time_stretch_to_bpm(mix, track_id, i[1], i[2], tempo, ok)
        IN  ToolCalled("time_stretch_to_bpm", track_id, r, disk,
                       [NoExtra EXCEPT !.target = i[1], !.source = r.source,
                                       !.frames = FramesOf(mix, track_id)])

ApplyEffects ==
    \E track_id \in TrackIds, any \in BOOLEAN, ok \in BOOLEAN :
        ToolCalled("apply_effects", track_id,
                   apply_effects(mix, track_id, any, ok), disk, NoExtra)

ApplyLadderFilter ==
    \E track_id \in TrackIds, ok \in BOOLEAN :
        ToolCalled("apply_ladder_filter", track_id,
                   apply_ladder_filter(mix, track_id, ok), disk, NoExtra)

ApplyParallelEffects ==
    \E track_id \in TrackIds, ok \in BOOLEAN :
        ToolCalled("apply_parallel_effects", track_id,
                   apply_parallel_effects(mix, track_id, ok), disk, NoExtra)

ApplyCreativeEffects ==
    \E track_id \in TrackIds, any \in BOOLEAN, ok \in BOOLEAN :
        ToolCalled("apply_creative_effects", track_id,
                   apply_creative_effects(mix, track_id, any, ok), disk, NoExtra)

AutomateFilterSweep ==
    \E track_id \in TrackIds, ok \in BOOLEAN :
        ToolCalled("automate_filter_sweep", track_id,
                   automate_filter_sweep(mix, track_id, ok), disk, NoExtra)

AddTrackToMix ==
    \E track_id \in TrackIds, crossfade_duration \in Crossfades,
       start_time \in StartTimes, end_time \in EndTimes :
        ToolCalled("add_track_to_mix", track_id,
                   add_track_to_mix(mix, track_id, crossfade_duration, start_time, end_time),
                   disk, NoExtra)

\* the peak absolute amplitude of the combined audio, in hundredths of full
\* scale, and the peak the limiter's compressors and make-up gain arrive at
\* before its clipper (the model does not carry the samples)
MixPeaks == {0, 80, 100}
LimiterLevels == {89, 100, 173}

RenderFinalMix ==
    \E normalize \in BOOLEAN, io \in {"ok", "mkdir_failed", "write_failed"},
       peak \in MixPeaks, gained \in LimiterLevels :
        LET r == render_final_mix(mix, disk, normalize, io)
            written == r.result = "ok"
        IN  ToolCalled("render_final_mix", NoArg, r, r.disk,
                       [NoExtra EXCEPT
                            !.frames = r.frames,
                            !.normalize = written /\ normalize,
                            !.peak_in = IF written THEN peak ELSE 0,
                            !.peak_out = IF written
                                         THEN Normalized(peak, normalize, gained)
                                         ELSE 0])

\* handle_mix_request clears the context before and after the agent runs
ClearContext ==
    ToolCalled("clear", NoArg, ToolRet(clear(mix), "ok"), disk, NoExtra)

\* ------------------------------------------------- calls with parameters

InitCalls ==
    /\ InitBase
    /\ call \in PendingCalls

Loaded(ctx, track_id) == track_id \in DOMAIN ctx.audio_cache

\* apply_effects with the keyword arguments of the call
CallApplyEffects ==
    \E ok \in BOOLEAN :
        LET p == Bind(EffectDefaults, call.kwargs)
            effects == apply_effects_chain(p)
            r == apply_effects(mix, call.track_id, effects # <<>>, ok)
        IN  /\ call.pc = "pending"
            /\ call.tool = "apply_effects"
            /\ ToolCalledWith("apply_effects", call.track_id, r, disk, NoExtra,
                   [call EXCEPT !.pc = "returned",
                                !.out = IF Loaded(mix, call.track_id)
                                        THEN effects ELSE <<>>])

\* apply_creative_effects with the keyword arguments of the call
CallApplyCreativeEffects ==
    \E ok \in BOOLEAN :
        LET p == Bind(CreativeDefaults, call.kwargs)
            effects == apply_creative_effects_chain(p)
            r == apply_creative_effects(mix, call.track_id, effects # <<>>, ok)
        IN  /\ call.pc = "pending"
            /\ call.tool = "apply_creative_effects"
            /\ ToolCalledWith("apply_creative_effects", call.track_id, r, disk, NoExtra,
                   [call EXCEPT !.pc = "returned",
                                !.out = IF Loaded(mix, call.track_id)
                                        THEN effects ELSE <<>>])

\* automate_filter_sweep with the keyword arguments of the call
CallAutomateFilterSweep ==
    \E ok \in BOOLEAN :
        LET p == Bind(SweepDefaults, call.kwargs)
            r == automate_filter_sweep(mix, call.track_id, ok)
        IN  /\ call.pc = "pending"
            /\ call.tool = "automate_filter_sweep"
            /\ ToolCalledWith("automate_filter_sweep", call.track_id, r, disk,
                   [NoExtra EXCEPT !.frames = FramesOf(mix, call.track_id)],
                   [call EXCEPT !.pc = "returned",
                                !.out = IF Loaded(mix, call.track_id)
                                        THEN SweepCutoffs(FramesOf(mix, call.track_id),
                                                          p.start_cutoff_hz,
                                                          p.end_cutoff_hz)
                                        ELSE <<>>])

\* one turn of the loop of render_final_mix on the two buffers of the call
CallCombine ==
    /\ call.pc = "pending"
    /\ call.tool = "render_final_mix"
    /\ call' = [call EXCEPT
           !.pc = "returned",
           !.out = CombineFrames(call.final_audio, call.audio,
                                 call.kwargs[1][2], call.sample_rate)]
    /\ UNCHANGED <<playerVars, analyzerVars, mixVars, clientVars, viewVars, lyricsVars>>

NextCalls ==
    \/ LoadAudioTrack
    \/ CallApplyEffects
    \/ CallApplyCreativeEffects
    \/ CallAutomateFilterSweep
    \/ CallCombine

SpecCalls == InitCalls /\ [][NextCalls]_vars

\* ------------------------------------------- the client and its agent

\* create_mix up to the start of _monitor_agent_progress
CreateMix ==
    \E started \in BOOLEAN, launcher \in {"exec", "spawn"},
       progress_callback \in BOOLEAN :
        /\ client.pc = "idle"
        /\ IF started
           THEN /\ agent' = [NoAgent EXCEPT !.launcher = launcher,
                                            !.child = "running",
                                            !.script = "running",
                                            !.pc = "idle"]
                /\ client' = [client EXCEPT !.pc = "reading",
                                            !.callback = progress_callback,
                                            !.timer = "armed"]
           ELSE /\ agent' = agent
                /\ client' = Finished([client EXCEPT !.callback = progress_callback],
                                      "AgentError", "none")
        /\ UNCHANGED <<playerVars, analyzerVars, mixVars, callVars, viewVars, lyricsVars>>

\* the agent calls a tool: the hook runs before it
AgentToolStart ==
    \E tool_name \in HookTools :
        /\ agent.script = "running"
        /\ agent.pc = "idle"
        /\ agent.calls < MaxToolCalls
        /\ agent' = on_tool_start(agent, tool_name)
        /\ UNCHANGED <<client, playerVars, analyzerVars, mixVars, callVars, viewVars, lyricsVars>>

\* the tool returns: the hook runs after it
AgentToolEnd ==
    /\ agent.script = "running"
    /\ agent.pc \in HookTools
    /\ agent' = on_tool_end(agent)
    /\ UNCHANGED <<client, playerVars, analyzerVars, mixVars, callVars, viewVars, lyricsVars>>

\* handle_mix_request returns and main prints the response
AgentSucceeds ==
    /\ agent.script = "running"
    /\ agent.pc = "idle"
    /\ agent' = main_success(agent)
    /\ UNCHANGED <<client, playerVars, analyzerVars, mixVars, callVars, viewVars, lyricsVars>>

\* handle_mix_request raises and main prints the error response
AgentFails ==
    /\ agent.script = "running"
    /\ agent.pc = "idle"
    /\ agent' = main_error(agent)
    /\ UNCHANGED <<client, playerVars, analyzerVars, mixVars, callVars, viewVars, lyricsVars>>

\* "uv run" ends with the exit code of the interpreter it started
UvExits ==
    /\ agent.launcher = "spawn"
    /\ agent.child = "running"
    /\ agent.script = "exited"
    /\ agent' = [agent EXCEPT !.child = "exited",
                              !.returncode = agent.exit_code]
    /\ UNCHANGED <<client, playerVars, analyzerVars, mixVars, callVars, viewVars, lyricsVars>>

\* read_stderr takes the next line
ReadStderr ==
    /\ client.pc = "reading"
    /\ agent.stderr # <<>>
    /\ client' = read_stderr(client, Head(agent.stderr))
    /\ agent' = [agent EXCEPT !.stderr = Tail(@)]
    /\ UNCHANGED <<playerVars, analyzerVars, mixVars, callVars, viewVars, lyricsVars>>

\* both pipes are at their end, the process has ended: the rest of
\* _monitor_agent_progress
MonitorFinishes ==
    \E file_exists \in BOOLEAN :
        /\ client.pc = "reading"
        /\ agent.stderr = <<>>
        /\ ~PipesOpen(agent)
        /\ client' = [_monitor_agent_progress(client, agent, file_exists)
                          EXCEPT !.timer = "none"]
        /\ UNCHANGED <<agent, playerVars, analyzerVars, mixVars, callVars, viewVars, lyricsVars>>

\* wait_for gives up after AGENT_TIMEOUT: the readers are cancelled and
\* create_mix kills the process, waits for it and raises AgentTimeout
Timeout ==
    /\ client.pc = "reading"
    /\ client.timer = "armed"
    /\ agent' = kill(agent)
    /\ client' = [Finished(client, "AgentTimeout", "none") EXCEPT !.timer = "fired"]
    /\ UNCHANGED <<playerVars, analyzerVars, mixVars, callVars, viewVars, lyricsVars>>

NextClient ==
    \/ CreateMix
    \/ AgentToolStart
    \/ AgentToolEnd
    \/ AgentSucceeds
    \/ AgentFails
    \/ UvExits
    \/ ReadStderr
    \/ MonitorFinishes
    \/ Timeout

SpecClient == Init /\ [][NextClient]_vars

\* ------------------------------------------------- the Floppy Mix view

\* what the handlers of the view find
Here == World(view, panel, fs, player)

\* the ghost fields a handler leaves alone
NoMore == [launched |-> FALSE, tracks |-> <<>>, picked |-> <<>>,
           path |-> NoPath, stale |-> FALSE, found |-> FALSE]

\* a sequence without its element number i
RemoveAt(seq, i) == SubSeq(seq, 1, i - 1) \o SubSeq(seq, i + 1, Len(seq))

\* a handler of the view ran: w is what it left, m the calls of create_mix
\* that go on, x what there is to note about it
Handled(name, w, m, x) ==
    /\ view' = w.view
    /\ panel' = w.panel
    /\ fs' = w.fs
    /\ player' = w.player
    /\ mixes' = m
    /\ ui' = [op        |-> name,
              pre       |-> view.mixing_state,
              changed   |-> w # Here,
              in_flight |-> Len(mixes.calls),
              launched  |-> x.launched,
              tracks    |-> x.tracks,
              picked    |-> x.picked,
              path      |-> x.path,
              stale     |-> x.stale,
              found     |-> x.found]
    /\ UNCHANGED <<now, end_event, op, arg, raised, pre, advanced, played, waited,
                   last_call, skips>>
    /\ UNCHANGED <<analyzerVars, mixVars, callVars, clientVars, lyricsVars>>

\* SigplayApp._show_floppy_mix_view: the switcher shows the view and on_show
\* loads the tracks of the library into the panel
ShowFloppyMix ==
    /\ ~view.shown
    /\ Handled("on_show",
               [Here EXCEPT !.view.shown = TRUE,
                            !.panel = refresh_tracks(@, PanelTracks)],
               mixes, NoMore)

\* Space on a row of the track list
ToggleTrack ==
    \E track \in LibraryTracks :
        /\ view.shown
        /\ Handled("toggle",
                   [Here EXCEPT !.panel = toggle_track_selection(@, track)],
                   mixes, NoMore)

\* the user writes instructions, or deletes them
TypeInstructions ==
    /\ view.shown
    /\ Handled("instructions", [Here EXCEPT !.view.instructions = ~@], mixes, NoMore)

\* the Start Mix button: start_mixing up to its await
StartMixing ==
    LET r == start_mixing(Here)
    IN  /\ view.shown
        /\ mixes.launched < MaxMixes
        /\ Handled("start_mixing", r.w,
                   IF r.launched
                   THEN [launched |-> mixes.launched + 1,
                         calls    |-> Append(mixes.calls,
                                             [k |-> mixes.launched + 1, stale |-> FALSE])]
                   ELSE mixes,
                   [NoMore EXCEPT !.launched = r.launched,
                                  !.tracks = r.tracks,
                                  !.picked = IF r.launched THEN panel.picked ELSE <<>>])

\* a create_mix returns the path of the file the agent wrote, and
\* start_mixing goes on
MixReturns ==
    \E i \in 1..Len(mixes.calls), home_len \in HomeLens, ok \in BOOLEAN :
        LET c == mixes.calls[i]
            value == MixFilePath(c.k, home_len)
            w == [Here EXCEPT !.fs.temp = @ \cup {value}]
        IN  Handled("mix_returned",
                    start_mixing_resume(w, FALSE, value, ok, now),
                    [mixes EXCEPT !.calls = RemoveAt(@, i)],
                    [NoMore EXCEPT !.path = value, !.stale = c.stale])

\* a create_mix raises, and start_mixing goes on
MixRaises ==
    \E i \in 1..Len(mixes.calls) :
        Handled("mix_raised",
                start_mixing_resume(Here, TRUE, NoPath, FALSE, now),
                [mixes EXCEPT !.calls = RemoveAt(@, i)],
                [NoMore EXCEPT !.stale = mixes.calls[i].stale])

\* whether _save_mix gets as far as the filename prompt
Prompted(w) == w.view.mix_file_path # NoPath /\ w.view.mixing_state = "previewing"

\* the Save Mix button and, when _save_mix shows the prompt, the answer
SaveMix ==
    \E filename \in IF Prompted(Here) THEN FilenameInputs ELSE {<<>>},
       io_ok \in IF Prompted(Here) THEN BOOLEAN ELSE {TRUE} :
        LET validated_filename == _validate_filename(filename)
        IN  /\ view.shown
            /\ Handled("save", _save_mix(Here, filename, io_ok), mixes,
                       [NoMore EXCEPT
                            !.found = /\ Prompted(Here)
                                      /\ validated_filename # <<>>
                                      /\ (validated_filename \o <<".wav">>) \in fs.music])

\* the Discard Mix button
DiscardMix ==
    /\ view.shown
    /\ Handled("discard", _discard_mix(Here), mixes, NoMore)

\* Escape: SigplayApp.action_back_to_main calls cleanup() and shows the main
\* view; the calls of create_mix go on
BackToMain ==
    /\ view.shown
    /\ Handled("cleanup",
               [cleanup(Here) EXCEPT !.view.shown = FALSE],
               [mixes EXCEPT !.calls = [j \in 1..Len(@) |-> [@[j] EXCEPT !.stale = TRUE]]],
               NoMore)

NextView ==
    \/ ShowFloppyMix
    \/ ToggleTrack
    \/ TypeInstructions
    \/ StartMixing
    \/ MixReturns
    \/ MixRaises
    \/ SaveMix
    \/ DiscardMix
    \/ BackToMain

SpecView == Init /\ [][NextView]_vars

\* on_mix_complete is called with the path a create_mix returned
OnMixComplete ==
    \E i \in 1..Len(mixes.calls), home_len \in HomeLens, ok \in BOOLEAN :
        LET c == mixes.calls[i]
            value == MixFilePath(c.k, home_len)
            w == [Here EXCEPT !.fs.temp = @ \cup {value}]
        IN  Handled("on_mix_complete", on_mix_complete(w, value, ok, now),
                    [mixes EXCEPT !.calls = RemoveAt(@, i)],
                    [NoMore EXCEPT !.path = value, !.stale = c.stale])

\* the handlers of the view, on_mix_complete among them
NextHandlers ==
    \/ NextView
    \/ OnMixComplete

SpecHandlers == Init /\ [][NextHandlers]_vars

\* ------------------------------------------------------------ the lyrics view

\* a handler or a task of the lyrics view ran and left b
LyricsRan(b) ==
    /\ lyrics' = b.l
    /\ player' = b.p
    /\ UNCHANGED <<now, end_event, op, arg, raised, pre, advanced, played, waited,
                   last_call, skips>>
    /\ UNCHANGED <<analyzerVars, mixVars, callVars, clientVars, viewVars>>

\* the loads started and the one on_list_view_selected is about to start
LoadsClaimed ==
    Len(lyrics.loads) + (IF lyrics.handler.pc = "awaiting_cancel" THEN 1 ELSE 0)

\* Enter on the view
SelectTrack ==
    \E track \in LibraryTracks, ok \in BOOLEAN :
        /\ LoadsClaimed < MaxLoads
        /\ LyricsRan(action_select_track(lyrics, player, track, ok, now))

\* a row of the list is selected; the view handles one message at a time
ListSelected ==
    \E track \in LibraryTracks, ok \in BOOLEAN :
        /\ LoadsClaimed < MaxLoads
        /\ lyrics.handler.pc = "idle"
        /\ LyricsRan(on_list_view_selected(lyrics, player, track, ok, now))

\* the event loop runs the step at the head of its queue
TaskStep ==
    /\ lyrics.ready # <<>>
    /\ Head(lyrics.ready).kind = "task"
    /\ LyricsRan(Both(task_step(lyrics, Head(lyrics.ready).id), player))

LoadStep ==
    /\ lyrics.ready # <<>>
    /\ Head(lyrics.ready).kind = "load"
    /\ LyricsRan(Both(load_step(lyrics, Head(lyrics.ready).id), player))

SelectedResumes ==
    \E ok \in BOOLEAN :
        /\ lyrics.ready # <<>>
        /\ Head(lyrics.ready).kind = "handler"
        /\ LyricsRan(selected_resume([lyrics EXCEPT !.ready = Tail(@)], player, ok, now))

\* a transcription that nobody cancelled comes to its end
TranscriptionEnds ==
    \E id \in 1..Len(lyrics.loads) :
        /\ lyrics.loads[id].task = "running"
        /\ LyricsRan(Both(task_finished(lyrics, id), player))

LyricsCleanup ==
    /\ lyrics.pending # 0
    /\ LyricsRan(Both(lyrics_cleanup(lyrics), player))

NextLyrics ==
    \/ SelectTrack
    \/ ListSelected
    \/ TaskStep
    \/ LoadStep
    \/ SelectedResumes
    \/ TranscriptionEnds
    \/ LyricsCleanup

SpecLyrics == Init /\ [][NextLyrics]_vars

\* ------------------------------------------------------ one mix request

\* handle_mix_request is called
RequestStarts ==
    \E outcome \in {"ok", "invalid", "no_agent"} :
        LET r == handle_mix_request_enter(mix, outcome)
        IN  /\ request.pc = "idle"
            /\ mix' = r.ctx
            /\ request' = IF r.exc
                           THEN [pc |-> "idle", outcome |-> "raised", emptied |-> FALSE]
                           ELSE [request EXCEPT !.pc = "agent"]
            /\ tool' = [tool EXCEPT !.name = "handle_mix_request"]
            /\ UNCHANGED <<disk, playerVars, analyzerVars, callVars, clientVars, viewVars, lyricsVars>>

\* the agent has returned or raised: the rest of handle_mix_request;
\* file_exists says whether there is a file at the output path the request
\* chose, which is the agent's to use or not
RequestEnds ==
    \E agent_raised \in BOOLEAN, file_exists \in BOOLEAN :
        LET r == handle_mix_request_leave(mix, agent_raised, file_exists)
        IN  /\ request.pc = "agent"
            /\ mix' = r.ctx
            /\ request' = [pc      |-> "idle",
                           outcome |-> IF r.exc THEN "raised" ELSE "returned",
                           emptied |-> mix # NewMixContext]
            /\ UNCHANGED <<disk, tool, playerVars, analyzerVars, callVars, clientVars, viewVars, lyricsVars>>

\* a request, and the tools that fill the context while its agent runs
NextRequest ==
    \/ RequestStarts
    \/ request.pc = "agent" /\ LoadAudioTrack
    \/ request.pc = "agent" /\ DetectBpm
    \/ request.pc = "agent" /\ AddTrackToMix
    \/ RequestEnds

SpecRequest == Init /\ [][NextRequest]_vars

\* the tools that build and render a mix
NextMix ==
    \/ LoadAudioTrack
    \/ AddTrackToMix
    \/ RenderFinalMix
    \/ ClearContext

SpecMix == Init /\ [][NextMix]_vars

\* the tools that work on one loaded track
NextTools ==
    \/ LoadAudioTrack
    \/ DetectBpm
    \/ TimeStretchToBpm
    \/ ApplyEffects
    \/ ApplyLadderFilter
    \/ ApplyParallelEffects
    \/ ApplyCreativeEffects
    \/ AutomateFilterSweep
    \/ AddTrackToMix

SpecTools == Init /\ [][NextTools]_vars


\* ================================================================= claims

PlayerOps == {"play", "pause", "resume", "stop", "next_track", "previous_track"}
Starters == {"play", "next_track", "previous_track", "check_track_end"}
Clamp(x) == Min(VOLUME_MAX, Max(VOLUME_MIN, x))

\* C1: after play(track), t1 seconds of playing, pause(), any delay d >= 0,
\* resume() and t2 more seconds of playing, get_position() is t1 + t2 whatever
\* d was, and while Paused it stays at t1: in Playing and in Paused,
\* get_position() is the number of seconds spent Playing since play().
C1_PositionIsPlayedTime ==
    player.state \in {PLAYING, PAUSED} => Position = played

\* playing again after a pause of at least a second, t1 >= 1 and t2 >= 1
C1_Witness ==
    /\ player.state = PLAYING
    /\ waited
    /\ player.pause_position >= 1
    /\ Position > player.pause_position

\* C2 (as claimed): previous_track() with a non-empty playlist restarts the
\* track that is playing (current_track and current_index unchanged, position
\* 0, Playing) where get_position() > 3 s, also for a track that is not in the
\* playlist; where get_position() <= 3 s it plays playlist[current_index - 1],
\* or changes nothing at index 0.
C2_PreviousTrackAsClaimed ==
    (op = "previous_track" /\ ~raised /\ player.playlist # <<>>) =>
        IF pre.position > RESTART_THRESHOLD
        THEN /\ player.current_track = pre.current_track
             /\ player.current_index = pre.current_index
             /\ Position = 0
             /\ player.state = PLAYING
        ELSE IF pre.current_index > 0
        THEN /\ player.current_track = ListAt(player.playlist, pre.current_index - 1)
             /\ Position = 0
             /\ player.state = PLAYING
        ELSE Snapshot = pre

C4_IndexKeptOnFailure ==
    (op \in {"next_track", "previous_track"} /\ raised) =>
        player.current_index = pre.current_index

C6_NextTrackAsClaimed ==
    (op = "next_track" /\ ~raised) =>
        IF player.playlist = <<>> THEN Snapshot = pre
        ELSE IF pre.current_index < Len(player.playlist) - 1
        THEN /\ player.current_index = pre.current_index + 1
             /\ player.current_track = ListAt(player.playlist, player.current_index)
             /\ player.state = PLAYING
        ELSE /\ player.state = STOPPED
             /\ player.current_index = pre.current_index

\* C7: stop() leaves the state Stopped and get_position() = 0, and until the
\* next play() no pause() or resume() restarts playback or brings a position
\* back.
C7_StoppedUntilPlay ==
    last_call = "stop" =>
        /\ player.state = STOPPED
        /\ Position = 0
        /\ player.music = "idle"

\* pause() or resume() called on a player that was stopped after playing
C7_Witness ==
    /\ op \in {"pause", "resume"}
    /\ pre.last_call = "stop"
    /\ player.current_track # None
    /\ now >= 1

\* C8: pause() outside Playing and resume() outside Paused change nothing:
\* state, current track, current_index, volume and get_position() are as
\* before the call.
C8_NoOpOutsideItsState ==
    (\/ op = "pause" /\ pre.state # PLAYING
     \/ op = "resume" /\ pre.state # PAUSED) => Snapshot = pre

\* resume() called while Playing, some seconds into a track that was paused before
C8_Witness ==
    /\ op = "resume"
    /\ pre.state = PLAYING
    /\ player.pause_position >= 1
    /\ pre.position > player.pause_position

\* C9: the stored volume is always within [0, 1]; set_volume(level) stores
\* min(1, max(0, level)); increase_volume(a) and decrease_volume(a) store what
\* set_volume(volume + a) and set_volume(volume - a) would.
C9_VolumeClamped ==
    /\ player.volume \in VOLUME_MIN..VOLUME_MAX
    /\ op = "set_volume" => player.volume = Clamp(arg)
    /\ op = "increase_volume" => player.volume = Clamp(pre.volume + arg)
    /\ op = "decrease_volume" => player.volume = Clamp(pre.volume - arg)
    /\ op \in {"set_volume", "increase_volume", "decrease_volume"} =>
           [Snapshot EXCEPT !.volume = pre.volume] = pre

\* decrease_volume() was clamped at 0
C9_Witness ==
    op = "decrease_volume" /\ pre.volume - arg < VOLUME_MIN /\ player.volume = VOLUME_MIN

\* C10: a play() whose load fails raises with state Stopped and current_track
\* None, and any play() that loads, also one after such a failure, enters
\* Playing with its track at position 0.
C10_PlayFailsClean ==
    op = "play" =>
        IF raised
        THEN player.state = STOPPED /\ player.current_track = None
        ELSE player.state = PLAYING /\ player.current_track = arg /\ Position = 0

\* a play() that loaded, right after one that failed while a track was playing
C10_Witness ==
    op = "play" /\ ~raised /\ pre.last_call = "play_failed" /\ pre.state = STOPPED

\* ------------------------------------------------------------ C11 .. C20

\* the buffer is BufLen samples, all of them delivered by invocation k
Uniform(buffer, k) ==
    /\ Len(buffer) = BufLen
    /\ \A i \in 1..Len(buffer) : buffer[i].inv = k

\* C11: whatever the interleaving of the capture callback and
\* get_frequency_bands, the one buffer the analyzer holds is always the whole
\* block of the last callback that stored (or the zeros of __init__), earlier
\* blocks are gone, the samples get_frequency_bands has copied so far are those
\* of that buffer, and the copy it goes on to analyse is one whole block.
C11_NoTornRead ==
    /\ Uniform(analyzer.audio_buffer, callback.stored)
    /\ reader.pc = "copying" =>
           \A i \in 1..Len(reader.audio_data) :
               reader.audio_data[i] = analyzer.audio_buffer[i]
    /\ reader.pc = "copied" =>
           \E k \in 0..callback.stored : Uniform(reader.audio_data, k)

C11_Witness ==
    /\ reader.pc = "copying"
    /\ Len(reader.audio_data) = BufLen
    /\ callback.pc = "waiting"
    /\ callback.stored >= 1

\* C12 (as claimed): a get_frequency_bands() made while the analyzer is
\* stopped returns all-zero bands, and the first get_frequency_bands() after a
\* stop() followed by a start() returns the bands of the buffer it read,
\* untouched by the bands computed before the stop.
C12_ZeroWhenStoppedAndResetOnRestart ==
    reader.op = "get_frequency_bands" =>
        /\ ~reader.active_at_call => reader.result = ZeroBands
        /\ reader.after_restart => reader.result = reader.current

\* the frame count the claim gives for the first n segments
RECURSIVE ClaimedFrames(_, _)
ClaimedFrames(segments, n) ==
    IF n = 1
    THEN segments[1].audio.frames
    ELSE LET before == ClaimedFrames(segments, n - 1)
             c == segments[n].crossfade_duration
             L == segments[n].audio.frames
             x == IF c > 0
                  THEN Min(ToSamples(c, segments[1].sample_rate), Min(before, L))
                  ELSE 0
         IN  before + (L - x)

SameChannels(segments) ==
    \A i \in 1..Len(segments) : segments[i].audio.channels = segments[1].audio.channels

MixedFormats(segments) ==
    \E i \in 1..Len(segments), j \in 1..Len(segments) :
        \/ segments[i].sample_rate # segments[j].sample_rate
        \/ segments[i].audio.channels # segments[j].audio.channels

\* two mono segments of 441000 frames at 44100 Hz, the second with a
\* crossfade of 3.0 s
TenSecondPair ==
    /\ Len(mix.mix_segments) = 2
    /\ \A i \in 1..2 :
           /\ mix.mix_segments[i].audio.channels = 1
           /\ mix.mix_segments[i].audio.frames = 441000
           /\ mix.mix_segments[i].sample_rate = 44100
    /\ mix.mix_segments[2].crossfade_duration = 30

\* C13: a render_final_mix that succeeds hands L0 + sum (Li - xi) frames to the
\* writer, xi = min(int(ci * sample_rate), frames accumulated so far, Li) when
\* ci > 0 and 0 otherwise (sample_rate being the first segment's); for the
\* ten-second pair that is 749,700 frames; and the loop fails only when the
\* segments differ in their channels.
C13_RenderedLength ==
    tool.name = "render_final_mix" =>
        /\ tool.result = "ok" =>
               tool.frames = ClaimedFrames(mix.mix_segments, Len(mix.mix_segments))
        /\ (tool.result = "ok" /\ TenSecondPair) => tool.frames = 749700
        /\ tool.result = "error_shape" => ~SameChannels(mix.mix_segments)

C13_Witness ==
    /\ tool.name = "render_final_mix"
    /\ tool.result = "ok"
    /\ TenSecondPair
    /\ tool.frames = 749700

\* C14 (as claimed): a render_final_mix over segments that differ in sample
\* rate or in channels returns an error and leaves the disk as it was.
C14_MismatchRefused ==
    (tool.name = "render_final_mix" /\ MixedFormats(mix.mix_segments)) =>
        /\ tool.result \in Errors
        /\ ~tool.disk_changed

\* C15 (as claimed): after a render_final_mix that produced a file the segment
\* list is empty.
C15_SegmentsConsumed ==
    (tool.name = "render_final_mix" /\ tool.result = "ok") =>
        mix.mix_segments = <<>>

\* C16 (as claimed): the file at output_path is never a partial one, and after
\* a render_final_mix that returned an error there is no file at output_path.
C16_NoPartialFile ==
    /\ disk.file # "partial"
    /\ (tool.name = "render_final_mix" /\ tool.result \in Errors) => disk.file = "none"

\* C17: render_final_mix called with no segment returns the empty-mix error,
\* leaves the disk (file and directory) as it was and leaves audio_cache,
\* bpm_cache and mix_segments unchanged.
C17_EmptyMixRefused ==
    (tool.name = "render_final_mix" /\ ~tool.had_segments) =>
        /\ tool.result = "empty_mix"
        /\ ~tool.disk_changed
        /\ ~tool.ctx_changed

C17_Witness ==
    /\ tool.name = "render_final_mix"
    /\ ~tool.had_segments
    /\ tool.result = "empty_mix"
    /\ mix.audio_cache # EmptyDict

PerTrackTools == {"detect_bpm", "time_stretch_to_bpm", "apply_effects",
                  "apply_ladder_filter", "apply_parallel_effects",
                  "apply_creative_effects", "automate_filter_sweep",
                  "add_track_to_mix"}

\* C18: each of the eight per-track tools, called with a track_id that is not
\* loaded, returns an error message and leaves audio_cache, bpm_cache and
\* mix_segments unchanged.
C18_UnloadedTrackRefused ==
    (tool.name \in PerTrackTools /\ ~tool.was_loaded) =>
        /\ tool.result \in Errors
        /\ ~tool.ctx_changed

C18_Witness ==
    /\ tool.name = "add_track_to_mix"
    /\ tool.track_id = "track_9"
    /\ tool.result = "not_loaded"
    /\ mix.audio_cache # EmptyDict
    /\ mix.mix_segments # <<>>

\* C19: time_stretch_to_bpm returns an error and leaves the audio unchanged
\* when target_bpm is outside [60, 200], and when source_bpm / target_bpm is
\* outside [0.85, 1.15]; with target_bpm in [60, 200] and the ratio in
\* [0.85, 1.15], limits included, neither guard refuses the call.
C19_StretchGuard ==
    tool.name = "time_stretch_to_bpm" =>
        LET t == tool.target
            s == tool.source
            bpm_ok == 60 <= t /\ t <= 200
            ratio_ok == 85 * t <= 100 * s /\ 100 * s <= 115 * t
        IN  /\ ~bpm_ok => (tool.result \in Errors /\ ~tool.audio_changed)
            /\ (tool.was_loaded /\ bpm_ok /\ ~ratio_ok) =>
                   (tool.result \in Errors /\ ~tool.audio_changed)
            /\ (tool.was_loaded /\ bpm_ok /\ ratio_ok) =>
                   tool.result \notin {"bpm_out_of_range", "stretch_out_of_range"}

C19_Witness ==
    /\ tool.name = "time_stretch_to_bpm"
    /\ tool.target = 60
    /\ tool.source = 51
    /\ tool.result = "ok"
    /\ tool.audio_changed

\* C20 (as claimed): time_stretch_to_bpm of a loaded track from 120 to 138 BPM
\* fails with the stretch-out-of-range error and leaves the audio unchanged.
C20_StretchRefused ==
    (tool.name = "time_stretch_to_bpm" /\ tool.was_loaded
        /\ tool.source = 120 /\ tool.target = 138) =>
        /\ tool.result = "stretch_out_of_range"
        /\ ~tool.audio_changed

\* C20 (amended): time_stretch_to_bpm of a loaded track from 120 to 138 BPM is
\* never refused by the stretch guard: unless the stretch itself raises, the
\* audio is stretched and 138 becomes the track's cached BPM.
C20_StretchAccepted ==
    (tool.name = "time_stretch_to_bpm" /\ tool.was_loaded
        /\ tool.source = 120 /\ tool.target = 138) =>
        /\ tool.result \in {"ok", "error_library"}
        /\ tool.result = "ok" =>
               /\ tool.audio_changed
               /\ mix.bpm_cache[tool.track_id] = 138

C20_Witness ==
    /\ tool.name = "time_stretch_to_bpm"
    /\ tool.was_loaded
    /\ tool.source = 120
    /\ tool.target = 138
    /\ tool.result = "ok"
    /\ tool.audio_changed

\* whether source_bpm / target_bpm lies in [0.85, 0.95) or (1.05, 1.15]
InStretchBand(source_bpm, target_bpm) ==
    /\ 85 * target_bpm <= 100 * source_bpm
    /\ 100 * source_bpm <= 115 * target_bpm
    /\ ~(95 * target_bpm <= 100 * source_bpm /\ 100 * source_bpm <= 105 * target_bpm)

\* a time_stretch_to_bpm that stretched
StretchDone ==
    /\ tool.name = "time_stretch_to_bpm"
    /\ tool.result = "ok"
    /\ InStretchBand(tool.source, tool.target)

Abs(n) == IF n < 0 THEN -n ELSE n

\* C21 (as claimed): after a successful stretch with the ratio in
\* [0.85, 0.95) or (1.05, 1.15] the frame count is input_frames / ratio within
\* one frame: | frames * source_bpm - input_frames * target_bpm | <= source_bpm.
C21_FramesDividedByRatio ==
    StretchDone =>
        Abs(FramesOf(mix, tool.track_id) * tool.source - tool.frames * tool.target)
            <= tool.source

\* C21 (amended): after a successful stretch with the ratio in [0.85, 0.95) or
\* (1.05, 1.15] the frame count is input_frames * ratio within one frame:
\* | frames * target_bpm - input_frames * source_bpm | <= target_bpm.
C21_FramesTimesRatio ==
    StretchDone =>
        Abs(FramesOf(mix, tool.track_id) * tool.target - tool.frames * tool.source)
            <= tool.target

C21_Witness ==
    /\ StretchDone
    /\ tool.source = 120
    /\ tool.target = 138
    /\ tool.frames = 441000
    /\ FramesOf(mix, tool.track_id) = 383478

\* whether source_bpm / target_bpm lies in [0.95, 1.05]
InSkipBand(source_bpm, target_bpm) ==
    95 * target_bpm <= 100 * source_bpm /\ 100 * source_bpm <= 105 * target_bpm

C25_NormalizedPeak ==
    (tool.name = "render_final_mix" /\ tool.result = "ok" /\ tool.normalize) =>
        /\ tool.peak_in > 0 => 100 * tool.peak_out <= 95 * FULL_SCALE
        /\ tool.peak_out <= FULL_SCALE
        /\ tool.peak_in = 0 => tool.peak_out = 0

\* the order of the stages the claim gives, by the plugin each stage is
FixedOrder == <<"NoiseGate", "HighpassFilter", "LowpassFilter", "LowShelfFilter",
                "HighShelfFilter", "Distortion", "Compressor", "PitchShift",
                "Chorus", "Phaser", "Delay", "Reverb", "Gain">>

\* the parameter that switches a stage on
StageParam ==
    [NoiseGate       |-> "noise_gate_threshold_db",
     HighpassFilter  |-> "highpass_cutoff_hz",
     LowpassFilter   |-> "lowpass_cutoff_hz",
     LowShelfFilter  |-> "bass_boost_db",
     HighShelfFilter |-> "treble_boost_db",
     Distortion      |-> "distortion_drive_db",
     Compressor      |-> "compressor_threshold_db",
     PitchShift      |-> "pitch_shift_semitones",
     Chorus          |-> "chorus_rate_hz",
     Phaser          |-> "phaser_rate_hz",
     Delay           |-> "delay_seconds",
     Reverb          |-> "reverb_room_size",
     Gain            |-> "gain_db",
     Bitcrush        |-> "bitcrush_bit_depth",
     Clipping        |-> "clipping_threshold_db"]

\* whether the parameters p switch the stage on: a threshold below 0 dB, a
\* boost, shift or gain other than 0, a rate, cutoff, drive, time, size or
\* depth above 0
SwitchedOn(stage, p) ==
    LET v == p[StageParam[stage]]
    IN  IF stage \in {"NoiseGate", "Compressor", "Clipping"} THEN v < 0
        ELSE IF stage \in {"LowShelfFilter", "HighShelfFilter", "PitchShift", "Gain"}
        THEN v # 0
        ELSE v > 0

PositionIn(seq, e) == CHOOSE i \in 1..Len(seq) : seq[i] = e

\* a call of the tool name has returned, for a track that was loaded
Returned(name) ==
    /\ call.pc = "returned"
    /\ call.tool = name
    /\ tool.name = name
    /\ tool.was_loaded

\* C23: the chain apply_effects builds holds exactly the stages its parameters
\* switch on, each once, in the fixed order noise gate, highpass, lowpass, bass
\* shelf, treble shelf, distortion, compressor, pitch shift, chorus, phaser,
\* delay, reverb, gain, in whatever order the caller wrote the arguments.
C23_FixedOrder ==
    Returned("apply_effects") =>
        LET p == Bind(EffectDefaults, call.kwargs)
            chain == call.out
        IN  /\ Range(chain) = {st \in Range(FixedOrder) : SwitchedOn(st, p)}
            /\ \A i \in 1..Len(chain), j \in 1..Len(chain) :
                   i < j => PositionIn(FixedOrder, chain[i]) < PositionIn(FixedOrder, chain[j])

C23_Witness ==
    /\ Returned("apply_effects")
    /\ call.kwargs = Reverse(AllOn)
    /\ call.out = FixedOrder
    /\ tool.result = "ok"

\* C24: apply_effects and apply_creative_effects add a stage only when its
\* parameter switches it on, never for a parameter left at 0, and with every
\* parameter at 0 they build no chain, report that nothing was applied and
\* leave the track's audio as it was.
C24_OffByDefault ==
    (Returned("apply_effects") \/ Returned("apply_creative_effects")) =>
        LET p == IF call.tool = "apply_effects"
                 THEN Bind(EffectDefaults, call.kwargs)
                 ELSE Bind(CreativeDefaults, call.kwargs)
        IN  /\ \A i \in 1..Len(call.out) :
                   /\ p[StageParam[call.out[i]]] # 0
                   /\ SwitchedOn(call.out[i], p)
            /\ (\A n \in DOMAIN p : p[n] = 0) =>
                   /\ call.out = <<>>
                   /\ tool.result = "no_effects"
                   /\ ~tool.audio_changed

C24_Witness ==
    /\ Returned("apply_creative_effects")
    /\ call.kwargs = <<>>
    /\ call.out = <<>>
    /\ tool.result = "no_effects"
    /\ ~tool.audio_changed

\* C29 (as claimed): over the chunks of a buffer of at least one frame the
\* cutoff goes in equal steps from start_cutoff_hz at the first chunk to
\* end_cutoff_hz at the last chunk.
C29_SweepReachesEnd ==
    (Returned("automate_filter_sweep") /\ tool.result = "ok" /\ tool.frames >= 1) =>
        LET p == Bind(SweepDefaults, call.kwargs)
            n == Len(call.out)
        IN  /\ n >= 1
            /\ call.out[1] = p.start_cutoff_hz * n
            /\ call.out[n] = p.end_cutoff_hz * n
            /\ \A c \in 2..n :
                   call.out[c] - call.out[c - 1] = call.out[2] - call.out[1]

\* C30: a turn of the render loop with x crossfaded frames, x = min(int(c *
\* sample_rate), frames accumulated, frames of the segment) for c > 0 and
\* x = 0 for c = 0, gives the accumulator without its last x frames, then x
\* frames that are tail * fade_out + head * fade_in of the accumulator's
\* last x and the segment's first x frames, then the segment without its
\* first x frames; with x = 0 that is the plain concatenation.
C30_OnlyOverlapBlended ==
    (call.pc = "returned" /\ call.tool = "render_final_mix") =>
        LET acc == call.final_audio
            seg == call.audio
            c == call.kwargs[1][2]
            x == IF c > 0
                 THEN Min((c * call.sample_rate) \div 10, Min(Len(acc), Len(seg)))
                 ELSE 0
            out == call.out
        IN  /\ Len(out) = Len(acc) + Len(seg) - x
            /\ \A i \in 1..(Len(acc) - x) : out[i] = acc[i]
            /\ \A j \in 1..x :
                   out[Len(acc) - x + j] = Blend(acc[Len(acc) - x + j], seg[j], j - 1, x)
            /\ \A j \in (x + 1)..Len(seg) : out[Len(acc) - x + j] = seg[j]
            /\ x = 0 => out = acc \o seg

C30_Witness ==
    /\ call.pc = "returned"
    /\ call.tool = "render_final_mix"
    /\ call.kwargs[1][2] = 2
    /\ Len(call.final_audio) = 3
    /\ Len(call.audio) = 3
    /\ call.out = <<Frame(1, 1),
                    Blend(Frame(1, 2), Frame(2, 1), 0, 2),
                    Blend(Frame(1, 3), Frame(2, 2), 1, 2),
                    Frame(2, 3)>>

\* short is the start of long
IsPrefix(short, long) ==
    /\ Len(short) <= Len(long)
    /\ \A i \in 1..Len(short) : short[i] = long[i]

\* create_mix is over and it was not the timeout that ended it
MonitorReturned ==
    /\ client.pc = "done"
    /\ agent.launcher # "none"
    /\ client.raised # "AgentTimeout"

\* C26 (as claimed): when the response of the agent has status "error",
\* create_mix raises MixingError.
C26_ErrorResponseIsMixingError ==
    (MonitorReturned /\ agent.stdout = "error") => client.raised = "MixingError"

\* C27 (as claimed): a create_mix that ran into the timeout raised
\* AgentTimeout, and no process of the agent is running afterwards.
C27_TimeoutLeavesNoProcess ==
    /\ client.timer = "fired" => (client.pc = "done" /\ client.raised = "AgentTimeout")
    /\ client.raised = "AgentTimeout" =>
           (agent.child # "running" /\ agent.script # "running")

\* C28 (as claimed): the hook prints a status line for the start and for the
\* end of every tool call, and progress_callback gets the status lines in the
\* order they were printed.
C28_StartAndEndReported ==
    /\ \A i \in 1..Len(agent.hook) : agent.hook[i].reported
    /\ client.callback => IsPrefix(client.delivered, agent.emitted)

\* C34: when the track that ended naturally is the "Floppy Mix Preview", the
\* poll does not call next_track() and leaves current_index and the current
\* track as they were; for any other naturally ended track it calls
\* next_track().
C34_PreviewNotAdvanced ==
    (op = "check_track_end" /\ pre.end_event) =>
        IF pre.current_track = PREVIEW
        THEN /\ ~advanced
             /\ player.current_index = pre.current_index
             /\ player.current_track = pre.current_track
             /\ player.state = pre.state
        ELSE advanced

\* the preview ended while a playlist with a next track was loaded, and the
\* poll left the player alone
C34_Witness ==
    /\ op = "check_track_end"
    /\ pre.end_event
    /\ pre.current_track = PREVIEW
    /\ player.playlist # <<>>
    /\ player.current_index < Len(player.playlist) - 1
    /\ ~advanced

\* C36: after any sequence of set_playlist, play, next_track, previous_track,
\* pause, resume and stop, failing play() included, current_index is -1 when
\* the playlist is empty and an index of the playlist otherwise.
C36_IndexInRange ==
    IF player.playlist = <<>>
    THEN player.current_index = -1
    ELSE player.current_index \in 0..(Len(player.playlist) - 1)

\* a play() that failed inside next_track() at the last index of a playlist
\* that was set with a start_index outside it
C36_Witness ==
    /\ op = "next_track"
    /\ raised
    /\ Len(player.playlist) > 1
    /\ player.current_index = Len(player.playlist) - 1

\* C37 (as claimed): with a non-empty playlist and every play() succeeding,
\* len(playlist) calls of next_track() in a row leave the player Stopped,
\* whatever the playlist, one that names the same track twice included.
C37_SkippingEnds ==
    (player.playlist # <<>> /\ skips >= Len(player.playlist)) =>
        player.state = STOPPED

\* C38: whenever handle_mix_request has returned or raised, by whatever path,
\* audio_cache, mix_segments and bpm_cache are empty, and they are empty when
\* the agent of the next request starts.
C38_RequestsIsolated ==
    /\ request.pc = "idle" => mix = NewMixContext
    /\ (request.pc = "agent" /\ tool.name = "handle_mix_request") => mix = NewMixContext

\* the agent of a request is about to start, after a request whose agent
\* raised with audio or segments in the context
C38_Witness ==
    /\ request.pc = "agent"
    /\ tool.name = "handle_mix_request"
    /\ request.outcome = "raised"
    /\ request.emptied

\* C31 (as claimed): mixing_state changes only from idle to mixing
\* (start_mixing with a selected track and instructions), from mixing to
\* previewing (mix complete), from mixing to idle (mix error) and from
\* previewing to idle (save, discard, cleanup); start_mixing outside idle
\* launches nothing, and save and discard act only in previewing.
C31_MixingStateMoves ==
    /\ ui.pre # view.mixing_state =>
           \/ /\ ui.pre = "idle"
              /\ view.mixing_state = "mixing"
              /\ ui.op = "start_mixing"
              /\ ui.tracks # <<>>
              /\ view.instructions
           \/ /\ ui.pre = "mixing"
              /\ view.mixing_state = "previewing"
              /\ ui.op = "mix_returned"
           \/ /\ ui.pre = "mixing"
              /\ view.mixing_state = "idle"
              /\ ui.op \in {"mix_returned", "mix_raised"}
           \/ /\ ui.pre = "previewing"
              /\ view.mixing_state = "idle"
              /\ ui.op \in {"save", "discard", "cleanup"}
    /\ (ui.op = "start_mixing" /\ ui.pre # "idle") => (~ui.launched /\ ~ui.changed)
    /\ (ui.op \in {"save", "discard"} /\ ui.pre # "previewing") => ~ui.changed

\* C32 (as claimed): when create_mix has returned, start_mixing ends with
\* mixing_state previewing, _mix_file_path the path create_mix returned, and
\* the preview track playing.
C32_MixIsPreviewed ==
    ui.op = "mix_returned" =>
        /\ view.mixing_state = "previewing"
        /\ view.mix_file_path = ui.path
        /\ player.current_track = PREVIEW
        /\ player.state = PLAYING

\* C33: when a file of the chosen name is in the music directory already,
\* _handle_filename_input copies nothing, keeps the temporary mix file and
\* _mix_file_path, and leaves mixing_state at previewing.
C33_NoOverwrite ==
    (ui.op = "save" /\ ui.found) =>
        /\ ~ui.changed
        /\ view.mixing_state = "previewing"
        /\ view.mix_file_path # NoPath

\* a preview whose file is there, and a save under a name that is taken
C33_Witness ==
    /\ ui.op = "save"
    /\ ui.found
    /\ view.mixing_state = "previewing"
    /\ view.mix_file_path \in fs.temp

\* C35 (as claimed): the tracks handed to create_mix are in the order in
\* which the user selected them, whatever the order of toggling.
C35_SelectionOrderKept ==
    (ui.op = "start_mixing" /\ ui.launched) => ui.tracks = ui.picked

\* C39 (as claimed): start_mixing calls create_mix only when no earlier call
\* is still running, also after a cleanup() during a mix, and a mix that ends
\* after cleanup() does not start the preview.
C39_OneMixInFlight ==
    /\ (ui.op = "start_mixing" /\ ui.launched) => ui.in_flight = 0
    /\ (ui.op \in {"mix_returned", "mix_raised"} /\ ui.stale) =>
           ~(player.current_track = PREVIEW /\ player.state = PLAYING)


\* C40: in LyricsView, while the transcription started by the latest track
\* selection is running, _pending_transcription_task refers to it and
\* is_loading is true: the finally clause of an earlier, cancelled load does
\* not clear them.
C40_LatestLoadKeepsItsTask ==
    LET n == Len(lyrics.loads)
    IN  (n > 0 /\ lyrics.loads[n].task = "running")
            => (lyrics.pending = n /\ lyrics.is_loading)

====
